---- MODULE Spec2Model ----
(***************************************************************************)
(* A model of the push-to-talk voice assistant's signal pipeline:         *)
(*   - signal_detector.find_matching_signal (pure function over text),    *)
(*   - action_parser.parse_actions and action_executor.execute_actions,   *)
(*   - audio_processor.AudioProcessor.process_audio (one turn),           *)
(*   - orchestrator.Orchestrator (hotkey callbacks, recording thread,     *)
(*     processing threads, one-shot STT language hint).                   *)
(*                                                                         *)
(* Text is a sequence of one-character strings.  Python's None is the     *)
(* value None below, which is different from every text.                  *)
(***************************************************************************)
EXTENDS Integers, Sequences, FiniteSets, TLC

VARIABLES
  sig_pc,        \* matcher harness: "call" before, "returned" after the call
  sig_text,      \* argument text of find_matching_signal
  sig_configs,   \* argument signal_configs of find_matching_signal
  sig_result,    \* the returned (config, text_for_handler), with the phrase that matched
  sig_first,     \* what the first call with these arguments returned
  pa_pc,         \* parser harness: "call" before, "returned" after parse_actions
  pa_in,         \* argument action_config_list of parse_actions
  pa_out,        \* the list parse_actions returned
  ex_pc,         \* executor harness: "call" before, "returned" after execute_actions
  ex_in,         \* arguments of execute_actions and answers of its collaborators
  ex_out,        \* the results execute_actions returned
  ap_pc,         \* turn harness: "call" before, "returned" after process_audio
  ap_in,         \* arguments of process_audio and answers of its collaborators
  ap_out,        \* what process_audio returned, and what it did on the way
  user,                    \* the keys as the user holds them
  hotkey_suppressed,       \* Orchestrator.hotkey_suppressed
  cmd_held,                \* Orchestrator.cmd_held
  cancel_requested,        \* Orchestrator.cancel_requested
  stop_recording_event,    \* Orchestrator.stop_recording_event is set
  recording_thread,        \* Orchestrator.recording_thread and its result
  next_stt_language_hint,  \* Orchestrator.next_stt_language_hint
  translation_mode,        \* Orchestrator.translation_mode
  last_paste_successful,   \* Orchestrator._last_paste_successful
  threads,                 \* the threads that run Orchestrator._process_audio
  hint_uses,               \* transcriptions that used the hint since it was set
  overlapped,              \* a _process_audio was started while another ran
  joined,                  \* what the last _on_release read from the recording thread
  tp_pc,         \* where the segmented process_audio is
  tp_in,         \* its arguments and the answers of its collaborators
  tp_futures,    \* the futures of transcribe_parallel, one per segment
  tp_results,    \* the list results of transcribe_parallel
  tp_next,       \* the future the loop over future_to_segment waits for
  tp_order,      \* the segments in the order their workers finished
  tp_out,        \* what transcribe_parallel and process_audio returned
  hk,            \* the fields of a HotkeyManager
  hk_env,        \* the keys that are down, the clock, and the callbacks called
  rec,           \* the fields of an AudioRecorder
  rec_env,       \* its caller, the clock, and what stop_recording returned
  ld_pc,         \* constructor harness: "construct", "call", "returned"
  ld_in,         \* the config module and the arguments of the turn
  ld_out         \* the constructed AudioProcessor and what its turn returned

sig_vars == <<sig_pc, sig_text, sig_configs, sig_result, sig_first>>

ap_vars == <<ap_pc, ap_in, ap_out>>

orch_vars ==
  <<user, hotkey_suppressed, cmd_held, cancel_requested, stop_recording_event,
    recording_thread, next_stt_language_hint, translation_mode,
    last_paste_successful, threads, hint_uses, overlapped, joined>>

parse_vars == <<pa_pc, pa_in, pa_out>>

exec_vars == <<ex_pc, ex_in, ex_out>>

seg_vars == <<tp_pc, tp_in, tp_futures, tp_results, tp_next, tp_order, tp_out>>

hk_vars == <<hk, hk_env>>

rec_vars == <<rec, rec_env>>

load_vars == <<ld_pc, ld_in, ld_out>>

vars ==
  <<sig_vars, ap_vars, orch_vars, parse_vars, exec_vars, seg_vars, hk_vars,
    rec_vars, load_vars>>

\* the parts of the state that a specification does not use stay as they are here
SignalUnused ==
  /\ sig_pc = "idle"
  /\ sig_text = <<>>
  /\ sig_configs = <<>>
  /\ sig_result = <<>>
  /\ sig_first = <<>>

ParseUnused ==
  /\ pa_pc = "idle"
  /\ pa_in = <<>>
  /\ pa_out = <<>>

ExecuteUnused ==
  /\ ex_pc = "idle"
  /\ ex_in = <<>>
  /\ ex_out = <<>>

TurnUnused ==
  /\ ap_pc = "idle"
  /\ ap_in = <<>>
  /\ ap_out = <<>>

OrchestratorUnused ==
  /\ user = <<>>
  /\ hotkey_suppressed = FALSE
  /\ cmd_held = FALSE
  /\ cancel_requested = FALSE
  /\ stop_recording_event = FALSE
  /\ recording_thread = <<>>
  /\ next_stt_language_hint = <<>>
  /\ translation_mode = <<>>
  /\ last_paste_successful = FALSE
  /\ threads = <<>>
  /\ hint_uses = 0
  /\ overlapped = FALSE
  /\ joined = <<>>

SegmentedUnused ==
  /\ tp_pc = "idle"
  /\ tp_in = <<>>
  /\ tp_futures = <<>>
  /\ tp_results = <<>>
  /\ tp_next = 0
  /\ tp_order = <<>>
  /\ tp_out = <<>>

HotkeyUnused ==
  /\ hk = <<>>
  /\ hk_env = <<>>

RecorderUnused ==
  /\ rec = <<>>
  /\ rec_env = <<>>

LoadUnused ==
  /\ ld_pc = "idle"
  /\ ld_in = <<>>
  /\ ld_out = <<>>

\* the harnesses added to the model after its first specifications
LaterUnused == SegmentedUnused /\ HotkeyUnused /\ RecorderUnused /\ LoadUnused

later_vars == <<seg_vars, hk_vars, rec_vars, load_vars>>

-----------------------------------------------------------------------------
(* Bounds of the model. *)

\* longest transcript handed to find_matching_signal
MaxLen == 3
\* longest command table handed to find_matching_signal
MaxCmds == 2

-----------------------------------------------------------------------------
(* Characters and the str methods the code uses. *)

None == <<"None">>

\* an exception that leaves the call
Raise == <<"Raise">>

\* an item of a signal_phrase list that is not a string and not falsy, as 5
NotAString == <<"NotAString">>

\* the characters transcripts and phrases are made of: two letters, one of
\* them in both cases, punctuation inside and outside the strip set of
\* signal_detector.py:62, and whitespace inside and outside that set
Chars == {"a", "A", "b", ",", "-", " ", "\t"}

\* string.punctuation, restricted to Chars
Punctuation == {",", "-", ".", "?", "!", ";", ":"}

\* the characters str.strip() removes, restricted to Chars
Whitespace == {" ", "\t"}

\* the argument ',.?!;: ' of lstrip/rstrip, restricted to Chars
StripSet == {",", ".", "?", "!", ";", ":", " "}

LowerChar(c) ==
  CASE c = "A" -> "a" [] c = "G" -> "g" [] c = "S" -> "s" [] c = "Y" -> "y"
    [] OTHER -> c

\* str.lower()
Lower(s) == [i \in 1..Len(s) |-> LowerChar(s[i])]

\* s.translate(str.maketrans('', '', string.punctuation))
RemovePunctuation(s) == SelectSeq(s, LAMBDA c : c \notin Punctuation)

RECURSIVE LStripChars(_, _)
\* s.lstrip(chars)
LStripChars(s, chars) ==
  IF s # <<>> /\ Head(s) \in chars THEN LStripChars(Tail(s), chars) ELSE s

RECURSIVE RStripChars(_, _)
\* s.rstrip(chars)
RStripChars(s, chars) ==
  IF s # <<>> /\ s[Len(s)] \in chars
  THEN RStripChars(SubSeq(s, 1, Len(s) - 1), chars)
  ELSE s

\* s.strip()
Strip(s) == RStripChars(LStripChars(s, Whitespace), Whitespace)

\* s.startswith(p)
StartsWith(s, p) == Len(p) <= Len(s) /\ SubSeq(s, 1, Len(p)) = p

\* s.endswith(p)
EndsWith(s, p) == Len(p) <= Len(s) /\ SubSeq(s, Len(s) - Len(p) + 1, Len(s)) = p

\* p in s
Contains(s, p) == \E i \in 0..(Len(s) - Len(p)) : SubSeq(s, i + 1, i + Len(p)) = p

\* s[n:]
SliceFrom(s, n) == SubSeq(s, n + 1, Len(s))

\* s[:-n], n > 0
SliceButLast(s, n) == SubSeq(s, 1, Len(s) - n)

-----------------------------------------------------------------------------
(* signal_detector.find_matching_signal *)

NoMatchFound == [match_found |-> FALSE, text_for_handler |-> None]

\* lines 24-26: the text prepared for exact matching
TextForExactMatch(text) == Strip(RemovePunctuation(Lower(text)))

\* MatchStart with the phrase left in: the remainder is not sliced off
MatchStartKeepsPhrase(text, phrase) ==
  IF StartsWith(Lower(text), Lower(phrase))
  THEN LET stripped == Strip(LStripChars(text, StripSet))
       IN  [match_found |-> TRUE,
            text_for_handler |-> IF stripped = <<>> THEN None ELSE stripped]
  ELSE NoMatchFound

\* lines 58-65
MatchStart(text, phrase) ==
  IF StartsWith(Lower(text), Lower(phrase))
  THEN LET remainder == SliceFrom(text, Len(phrase))
           stripped  == Strip(LStripChars(remainder, StripSet))
       IN  [match_found |-> TRUE,
            text_for_handler |-> IF stripped = <<>> THEN None ELSE stripped]
  ELSE NoMatchFound

\* MatchEnd without lines 72-73: an empty residual is returned as ""
MatchEndKeepsEmpty(text, phrase) ==
  IF EndsWith(Lower(text), Lower(phrase))
  THEN [match_found |-> TRUE,
        text_for_handler |->
          Strip(RStripChars(SliceButLast(text, Len(phrase)), StripSet))]
  ELSE NoMatchFound

\* lines 66-73
MatchEnd(text, phrase) ==
  IF EndsWith(Lower(text), Lower(phrase))
  THEN LET remainder == SliceButLast(text, Len(phrase))
           stripped  == Strip(RStripChars(remainder, StripSet))
       IN  [match_found |-> TRUE,
            text_for_handler |-> IF stripped = <<>> THEN None ELSE stripped]
  ELSE NoMatchFound

\* MatchExact comparing with the lowercased phrase only, its punctuation kept
MatchExactRawPhrase(text, phrase) ==
  IF TextForExactMatch(text) = Lower(phrase)
  THEN [match_found |-> TRUE, text_for_handler |-> None]
  ELSE NoMatchFound

\* lines 50-52 and 74-77
MatchExact(text, phrase) ==
  IF TextForExactMatch(text) = Strip(RemovePunctuation(Lower(phrase)))
  THEN [match_found |-> TRUE, text_for_handler |-> None]
  ELSE NoMatchFound

\* MatchAnywhere handing on the lowercased text it searched in
MatchAnywhereLowered(text, phrase) ==
  IF Contains(Lower(text), Lower(phrase))
  THEN [match_found |-> TRUE,
        text_for_handler |-> IF Strip(text) = <<>> THEN None ELSE Lower(text)]
  ELSE NoMatchFound

\* lines 78-85
MatchAnywhere(text, phrase) ==
  IF Contains(Lower(text), Lower(phrase))
  THEN [match_found |-> TRUE,
        text_for_handler |-> IF Strip(text) = <<>> THEN None ELSE text]
  ELSE NoMatchFound

\* lines 57-85: the rule of one phrase under the command's match_position
MatchPhrase(text, phrase, match_position) ==
  CASE match_position = "start" -> MatchStart(text, phrase)
    [] match_position = "end"   -> MatchEnd(text, phrase)
    [] match_position = "exact" -> MatchExact(text, phrase)
    [] OTHER                    -> MatchAnywhere(text, phrase)

\* line 44: config.get('match_position', 'anywhere')
MatchPosition(config) ==
  IF config.match_position = "missing" THEN "anywhere" ELSE config.match_position

\* lines 29-42: the phrases to check, <<>> for an entry that is skipped
PhrasesToCheck(config) ==
  CASE config.signal_phrase.kind = "list" -> config.signal_phrase.list
    [] config.signal_phrase.kind = "str" /\ config.signal_phrase.str # <<>>
         -> <<config.signal_phrase.str>>
    [] OTHER -> <<>>

RECURSIVE CheckPhrases(_, _, _, _)
\* lines 47-91: the phrases of one command in list order, from the j-th on
CheckPhrases(text, phrases, match_position, j) ==
  IF j > Len(phrases) THEN [match_found |-> FALSE, text_for_handler |-> None, phrase |-> <<>>]
  ELSE IF phrases[j] = <<>> \/ phrases[j] = None
  THEN CheckPhrases(text, phrases, match_position, j + 1)
  ELSE IF phrases[j] = NotAString
  THEN [match_found |-> FALSE, text_for_handler |-> Raise, phrase |-> <<>>]
  ELSE LET m == MatchPhrase(text, phrases[j], match_position)
       IN  IF m.match_found
           THEN [match_found |-> TRUE, text_for_handler |-> m.text_for_handler,
                 phrase |-> phrases[j]]
           ELSE CheckPhrases(text, phrases, match_position, j + 1)

\* line 94 (and 22): return None, None
NoSignal == [config |-> 0, text_for_handler |-> None, phrase |-> <<>>]

\* line 51: phrase.lower() of an item that is no string raises AttributeError
SignalRaised == [config |-> -1, text_for_handler |-> Raise, phrase |-> <<>>]

RECURSIVE CheckConfigsLastWins(_, _, _)
\* CheckConfigs that keeps scanning after a match: the last matching command wins
CheckConfigsLastWins(text, signal_configs, i) ==
  IF i > Len(signal_configs) THEN NoSignal
  ELSE LET later == CheckConfigsLastWins(text, signal_configs, i + 1)
           m == CheckPhrases(text, PhrasesToCheck(signal_configs[i]),
                             MatchPosition(signal_configs[i]), 1)
       IN  IF later.config # 0 THEN later
           ELSE IF m.match_found
           THEN [config |-> i, text_for_handler |-> m.text_for_handler,
                 phrase |-> m.phrase]
           ELSE NoSignal

RECURSIVE CheckConfigs(_, _, _)
\* lines 28-94: the commands in table order, from the i-th on
CheckConfigs(text, signal_configs, i) ==
  IF i > Len(signal_configs) THEN NoSignal
  ELSE LET m == CheckPhrases(text, PhrasesToCheck(signal_configs[i]),
                             MatchPosition(signal_configs[i]), 1)
       IN  IF m.match_found
           THEN [config |-> i, text_for_handler |-> m.text_for_handler,
                 phrase |-> m.phrase]
           ELSE IF m.text_for_handler = Raise THEN SignalRaised
           ELSE CheckConfigs(text, signal_configs, i + 1)

\* find_matching_signal without lines 21-22: the table is searched for every text
FindMatchingSignalUnguarded(text, signal_configs) ==
  CheckConfigs(text, signal_configs, 1)

\* find_matching_signal with a memory: once a call has matched, later calls
\* return that match
FindMatchingSignalSticky(text, signal_configs) ==
  IF sig_result.config > 0 THEN sig_result
  ELSE IF text = <<>> \/ text = None THEN NoSignal
  ELSE CheckConfigs(text, signal_configs, 1)

\* the function: config is the index of the returned command in the table,
\* 0 when None is returned; lines 21-22 return for a text that is "" or None
find_matching_signal(text, signal_configs) ==
  IF text = <<>> \/ text = None THEN NoSignal
  ELSE CheckConfigs(text, signal_configs, 1)

-----------------------------------------------------------------------------
(* Inputs of the matcher: cleaned transcripts and command tables. *)

RECURSIVE SeqsUpTo(_, _)
\* the sequences over S of length at most n
SeqsUpTo(S, n) ==
  IF n = 0 THEN {<<>>}
  ELSE LET shorter == SeqsUpTo(S, n - 1)
       IN  shorter \cup {Append(s, c) : s \in shorter, c \in S}

\* audio_processor.py:191 hands clean_output_text's result, text.strip(), on
Transcripts == {s \in SeqsUpTo(Chars, MaxLen) : Strip(s) = s}

StrPhrase(p)   == [kind |-> "str",  str |-> p,    list |-> <<>>]
ListPhrase(ps) == [kind |-> "list", str |-> <<>>, list |-> ps]

SignalCommand(sp, pos) == [signal_phrase |-> sp, match_position |-> pos]

\* command entries in the shapes of config.py: one phrase as a string, several
\* as a list, with and without match_position
SignalPool ==
  { SignalCommand(StrPhrase(<<"a">>), "start"),
    SignalCommand(ListPhrase(<< <<"a", "b">>, <<"b">> >>), "start"),
    SignalCommand(ListPhrase(<< <<"b">>, <<"A">> >>), "end"),
    SignalCommand(StrPhrase(<<"a", ",">>), "end"),
    SignalCommand(ListPhrase(<< <<"A", "-">>, <<"a", " ", "b">> >>), "exact"),
    SignalCommand(StrPhrase(<<"b">>), "exact"),
    SignalCommand(StrPhrase(<<"-">>), "exact"),
    SignalCommand(StrPhrase(<<"A">>), "anywhere"),
    SignalCommand(ListPhrase(<< <<"b", "a">>, <<",">> >>), "missing") }

SignalTables == SeqsUpTo(SignalPool, MaxCmds)

-----------------------------------------------------------------------------
(* The matcher harness: one call of find_matching_signal. *)

InitSignal ==
  /\ LaterUnused
  /\ sig_pc = "call"
  /\ sig_text \in Transcripts \cup {None}
  /\ sig_configs \in SignalTables
  /\ sig_result = NoSignal
  /\ sig_first = NoSignal
  /\ TurnUnused
  /\ OrchestratorUnused
  /\ ParseUnused
  /\ ExecuteUnused

FindMatchingSignal ==
  /\ sig_pc = "call"
  /\ sig_pc' = "returned"
  /\ sig_result' = find_matching_signal(sig_text, sig_configs)
  /\ UNCHANGED <<sig_text, sig_configs, sig_first, ap_vars, orch_vars, parse_vars, exec_vars,
                 later_vars>>

NextSignal == FindMatchingSignal

SpecSignal == InitSignal /\ [][NextSignal]_vars

-----------------------------------------------------------------------------
(* Properties of find_matching_signal. *)

SigReturned == sig_pc = "returned"

\* the command of the table that was returned, when one was
SigConfig == sig_configs[sig_result.config]

\* phrase p of a command matches the text under the command's match_position
PhraseMatches(text, p, config) ==
  /\ p # <<>>
  /\ MatchPhrase(text, p, MatchPosition(config)).match_found

\* some phrase of the i-th command matches the text
CommandMatches(text, signal_configs, i) ==
  \E j \in 1..Len(PhrasesToCheck(signal_configs[i])) :
    PhraseMatches(text, PhrasesToCheck(signal_configs[i])[j], signal_configs[i])

\* the part of the transcript outside the matched prefix or suffix
Remainder(text, phrase, match_position) ==
  IF match_position = "start" THEN SliceFrom(text, Len(phrase))
  ELSE SliceButLast(text, Len(phrase))

NoneIfEmpty(s) == IF s = <<>> THEN None ELSE s

\* C1: the command returned is the earliest command of the table with a
\* matching phrase, whatever later commands match too, and within it the
\* first matching phrase in list order decides the residual.
C1_TableOrder ==
  (SigReturned /\ sig_text # <<>>) =>
    /\ (\E i \in 1..Len(sig_configs) : CommandMatches(sig_text, sig_configs, i))
         => sig_result.config # 0
    /\ sig_result.config # 0 =>
         /\ CommandMatches(sig_text, sig_configs, sig_result.config)
         /\ \A i \in 1..(sig_result.config - 1) :
              ~CommandMatches(sig_text, sig_configs, i)
         /\ LET ps == PhrasesToCheck(SigConfig)
            IN  \E j \in 1..Len(ps) :
                  /\ PhraseMatches(sig_text, ps[j], SigConfig)
                  /\ \A k \in 1..(j - 1) : ~PhraseMatches(sig_text, ps[k], SigConfig)
                  /\ sig_result.phrase = ps[j]
                  /\ sig_result.text_for_handler =
                       MatchPhrase(sig_text, ps[j], MatchPosition(SigConfig)).text_for_handler

\* C1 witness: two different commands match, the earlier one is returned, and
\* the later one would have given another residual
C1_Witness ==
  /\ SigReturned
  /\ Len(sig_configs) = 2
  /\ sig_configs[1] # sig_configs[2]
  /\ CommandMatches(sig_text, sig_configs, 1)
  /\ CommandMatches(sig_text, sig_configs, 2)
  /\ sig_result.config = 1
  /\ find_matching_signal(sig_text, <<sig_configs[2]>>).text_for_handler
       # sig_result.text_for_handler

\* C7 as stated: the residual of a Start or End match never contains the
\* matched phrase, compared case-insensitively.
C7_ResidualNeverContainsPhrase ==
  (/\ SigReturned
   /\ sig_result.config # 0
   /\ MatchPosition(SigConfig) \in {"start", "end"}
   /\ sig_result.text_for_handler # None)
    => ~Contains(Lower(sig_result.text_for_handler), Lower(sig_result.phrase))

\* C7 amended: the residual of a Start or End match contains the matched
\* phrase (case-insensitively) only if the transcript outside the matched
\* prefix or suffix contains a further occurrence of it.
C7_ResidualContainsOnlyFurtherOccurrence ==
  (/\ SigReturned
   /\ sig_result.config # 0
   /\ MatchPosition(SigConfig) \in {"start", "end"}
   /\ sig_result.text_for_handler # None
   /\ Contains(Lower(sig_result.text_for_handler), Lower(sig_result.phrase)))
    => Contains(Lower(Remainder(sig_text, sig_result.phrase, MatchPosition(SigConfig))),
                Lower(sig_result.phrase))

\* C7 witness: a Start match in another case than the phrase's, whose
\* residual is a text without the phrase
C7_Witness ==
  /\ SigReturned
  /\ sig_result.config # 0
  /\ MatchPosition(SigConfig) = "start"
  /\ sig_result.text_for_handler # None
  /\ SubSeq(sig_text, 1, Len(sig_result.phrase)) # sig_result.phrase
  /\ ~Contains(Lower(sig_result.text_for_handler), Lower(sig_result.phrase))

\* C8 as stated: a Start residual is the transcript after the phrase with
\* leading characters of ',.?!;: ' stripped, an End residual the transcript
\* before the phrase with trailing such characters stripped, None when empty.
C8_ResidualIsStripSetStripped ==
  (/\ SigReturned
   /\ sig_result.config # 0
   /\ MatchPosition(SigConfig) \in {"start", "end"})
    => sig_result.text_for_handler =
         IF MatchPosition(SigConfig) = "start"
         THEN NoneIfEmpty(LStripChars(Remainder(sig_text, sig_result.phrase, "start"), StripSet))
         ELSE NoneIfEmpty(RStripChars(Remainder(sig_text, sig_result.phrase, "end"), StripSet))

\* C8 amended: a Start residual is the transcript after the phrase with
\* leading characters of ',.?!;: ' stripped and then surrounding whitespace
\* stripped, an End residual the transcript before the phrase with trailing
\* such characters stripped and then surrounding whitespace stripped; a
\* residual that is empty after stripping is None, never the empty string.
C8_ResidualIsStrippedTwice ==
  (/\ SigReturned
   /\ sig_result.config # 0
   /\ MatchPosition(SigConfig) \in {"start", "end"})
    => /\ sig_result.text_for_handler # <<>>
       /\ sig_result.text_for_handler =
            IF MatchPosition(SigConfig) = "start"
            THEN NoneIfEmpty(Strip(LStripChars(
                   Remainder(sig_text, sig_result.phrase, "start"), StripSet)))
            ELSE NoneIfEmpty(Strip(RStripChars(
                   Remainder(sig_text, sig_result.phrase, "end"), StripSet)))

\* C8 witness: an End match with nothing but strip characters before the
\* phrase, returned as None
C8_Witness ==
  /\ SigReturned
  /\ sig_result.config # 0
  /\ MatchPosition(SigConfig) = "end"
  /\ Len(sig_text) > Len(sig_result.phrase)
  /\ sig_result.text_for_handler = None

\* C9: an Exact command that is reached matches iff the transcript,
\* lowercased with all punctuation and surrounding whitespace removed, equals
\* one of its phrases normalised the same way; the residual of a returned
\* Exact command is None.
C9_ExactMatching ==
  (SigReturned /\ sig_text # <<>>) =>
    \A i \in 1..Len(sig_configs) :
      (/\ MatchPosition(sig_configs[i]) = "exact"
       /\ sig_result.config \notin 1..(i - 1))
        => /\ (sig_result.config = i) <=>
                \E j \in 1..Len(PhrasesToCheck(sig_configs[i])) :
                  LET p == PhrasesToCheck(sig_configs[i])[j]
                  IN  /\ p # <<>>
                      /\ Strip(RemovePunctuation(Lower(sig_text)))
                           = Strip(RemovePunctuation(Lower(p)))
           /\ (sig_result.config = i) => sig_result.text_for_handler = None

\* C9 witness: an Exact command returned for a transcript that differs from
\* the phrase in case and punctuation
C9_Witness ==
  /\ SigReturned
  /\ sig_result.config # 0
  /\ MatchPosition(SigConfig) = "exact"
  /\ Lower(sig_text) # Lower(sig_result.phrase)
  /\ sig_text # Lower(sig_text)
  /\ sig_result.text_for_handler = None

\* C10: whenever a command with match_position anywhere, or without a
\* match_position, is returned, the residual is the input transcript
\* verbatim: the phrase not removed, the case unchanged.
C10_AnywhereResidualVerbatim ==
  (/\ SigReturned
   /\ sig_result.config # 0
   /\ SigConfig.match_position \in {"anywhere", "missing"})
    => sig_result.text_for_handler = sig_text

\* C10 witness: a command without match_position returned for a transcript
\* with an upper-case letter and more than the phrase in it
C10_Witness ==
  /\ SigReturned
  /\ sig_result.config # 0
  /\ SigConfig.match_position = "missing"
  /\ Len(sig_text) > Len(sig_result.phrase)
  /\ sig_text # Lower(sig_text)
  /\ sig_result.text_for_handler = sig_text

\* C11: for a text that is "" or None the function returns (None, None)
\* for every table, no phrase of the table being tried; and a non-empty
\* transcript that no phrase of any command matches returns (None, None).
C11_EmptyAndNoMatchReturnNone ==
  SigReturned =>
    /\ sig_text \in {<<>>, None} => sig_result = NoSignal
    /\ (/\ sig_text \notin {<<>>, None}
        /\ \A i \in 1..Len(sig_configs) : ~CommandMatches(sig_text, sig_configs, i))
         => sig_result = NoSignal

\* C11 witness: the empty text returns (None, None) under a table with an
\* Exact command that a search of the table would have matched to it
C11_Witness ==
  /\ SigReturned
  /\ sig_text = <<>>
  /\ CheckConfigs(sig_text, sig_configs, 1).config # 0
  /\ sig_result = NoSignal

-----------------------------------------------------------------------------
(* Tables with malformed entries: a signal_phrase that is missing, of a wrong
   type, empty, or a list with items that are not strings. *)

MissingPhrase   == [kind |-> "missing", str |-> <<>>, list |-> <<>>]
WrongTypePhrase == [kind |-> "other",   str |-> <<>>, list |-> <<>>]

MalformedPool ==
  { SignalCommand(MissingPhrase, "start"),
    SignalCommand(WrongTypePhrase, "missing"),
    SignalCommand(StrPhrase(<<>>), "exact"),
    SignalCommand(ListPhrase(<<>>), "end"),
    SignalCommand(ListPhrase(<< None, <<>> >>), "start"),
    SignalCommand(ListPhrase(<< NotAString, <<"a">> >>), "start"),
    SignalCommand(ListPhrase(<< <<"b">>, NotAString >>), "end") }

\* commands that are well formed, for the tables around a malformed entry
WellFormedPool ==
  { SignalCommand(StrPhrase(<<"a">>), "start"),
    SignalCommand(ListPhrase(<< <<"b">>, <<"A">> >>), "end"),
    SignalCommand(StrPhrase(<<"A">>), "anywhere") }

MalformedTables == SeqsUpTo(MalformedPool \cup WellFormedPool, MaxCmds)

InitMalformed ==
  /\ LaterUnused
  /\ sig_pc = "call"
  /\ sig_text \in Transcripts
  /\ sig_configs \in MalformedTables
  /\ sig_result = NoSignal
  /\ sig_first = NoSignal
  /\ TurnUnused
  /\ OrchestratorUnused
  /\ ParseUnused
  /\ ExecuteUnused

SpecMalformed == InitMalformed /\ [][NextSignal]_vars

\* the entry's signal_phrase is missing, empty, an empty list, of a wrong
\* type, or a list with an item that is not a string
Malformed(config) ==
  \/ config.signal_phrase.kind \notin {"str", "list"}
  \/ config.signal_phrase.kind = "str" /\ config.signal_phrase.str = <<>>
  \/ /\ config.signal_phrase.kind = "list"
     /\ \/ config.signal_phrase.list = <<>>
        \/ \E j \in 1..Len(config.signal_phrase.list) :
             config.signal_phrase.list[j] \in {None, NotAString}

\* the table without its i-th entry
WithoutEntry(signal_configs, i) ==
  SubSeq(signal_configs, 1, i - 1) \o SubSeq(signal_configs, i + 1, Len(signal_configs))

\* what a call returned: the command, if one, and the residual
Returned(result, signal_configs) ==
  << IF result.config > 0 THEN <<signal_configs[result.config]>> ELSE <<>>,
     result.text_for_handler >>

\* C12 as stated: a command whose signal_phrase is missing, empty, an empty
\* list or of a wrong type, a list with non-string items included, is skipped
\* without an exception, and the call returns what it returns for the table
\* without that command.
C12_MalformedEntrySkipped ==
  SigReturned =>
    \A i \in 1..Len(sig_configs) :
      Malformed(sig_configs[i]) =>
        /\ sig_result # SignalRaised
        /\ Returned(sig_result, sig_configs) =
             Returned(find_matching_signal(sig_text, WithoutEntry(sig_configs, i)),
                      WithoutEntry(sig_configs, i))

\* the entries the code tells apart at lines 30 and 36-42, and the lists
\* whose items are all falsy, are skipped: nothing is raised and the result is
\* that of the table without them
C12_EntryWithoutStringsSkipped ==
  (/\ SigReturned
   /\ \A i \in 1..Len(sig_configs) :
        \A j \in 1..Len(PhrasesToCheck(sig_configs[i])) :
          PhrasesToCheck(sig_configs[i])[j] # NotAString)
    => \A i \in 1..Len(sig_configs) :
         Malformed(sig_configs[i]) =>
           /\ sig_result # SignalRaised
           /\ Returned(sig_result, sig_configs) =
                Returned(find_matching_signal(sig_text, WithoutEntry(sig_configs, i)),
                         WithoutEntry(sig_configs, i))

-----------------------------------------------------------------------------
(* Repeated calls of find_matching_signal: a call, possibly a call with other
   arguments after it, and the first call again. *)

RepeatTables == SeqsUpTo(WellFormedPool, MaxCmds)

\* the arguments of the call in between
OtherTexts == { <<"a">>, <<"b">>, <<>> }
OtherTables == { <<SignalCommand(StrPhrase(<<"a">>), "start")>>, <<>> }

InitRepeat ==
  /\ LaterUnused
  /\ sig_pc = "call"
  /\ sig_text \in Transcripts \cup {None}
  /\ sig_configs \in RepeatTables
  /\ sig_result = NoSignal
  /\ sig_first = NoSignal
  /\ TurnUnused
  /\ OrchestratorUnused
  /\ ParseUnused
  /\ ExecuteUnused

\* a call with other arguments; sig_first keeps what the first call returned
CallWithOtherArguments ==
  /\ sig_pc = "returned"
  /\ sig_pc' = "other"
  /\ sig_first' = sig_result
  /\ \E text \in OtherTexts, signal_configs \in OtherTables :
       sig_result' = find_matching_signal(text, signal_configs)
  /\ UNCHANGED <<sig_text, sig_configs, ap_vars, orch_vars, parse_vars, exec_vars,
                 later_vars>>

\* the first call once more
CallAgain ==
  /\ sig_pc \in {"returned", "other"}
  /\ sig_pc' = IF sig_pc = "returned" THEN "repeated" ELSE "repeated_after_other"
  /\ sig_first' = IF sig_pc = "returned" THEN sig_result ELSE sig_first
  /\ sig_result' = find_matching_signal(sig_text, sig_configs)
  /\ UNCHANGED <<sig_text, sig_configs, ap_vars, orch_vars, parse_vars, exec_vars,
                 later_vars>>

NextRepeat ==
  \/ FindMatchingSignal
  \/ CallWithOtherArguments
  \/ CallAgain

SpecRepeat == InitRepeat /\ [][NextRepeat]_vars

-----------------------------------------------------------------------------
(* action_parser.parse_actions.  An action string is a sequence whose
   elements are its delimiters and blanks, one character each, and the words
   between them, one element each: no operation of the parser splits a word. *)

Range(s) == {s[i] : i \in 1..Len(s)}

\* s.find(d) + 1 for a one-element d: the position of the first d, 0 without
IndexOf(s, d) ==
  IF d \in Range(s)
  THEN CHOOSE i \in 1..Len(s) : s[i] = d /\ \A j \in 1..(i - 1) : s[j] # d
  ELSE 0

RECURSIVE Split(_, _)
\* s.split(d)
Split(s, d) ==
  IF d \notin Range(s) THEN <<s>>
  ELSE LET i == IndexOf(s, d)
       IN  <<SubSeq(s, 1, i - 1)>> \o Split(SliceFrom(s, i), d)

\* a dict as the set of its <<key, value>> items
NoParams == {}

\* d[key] = value
DictSet(d, key, value) == {item \in d : item[1] # key} \cup {<<key, value>>}

\* key in d
DictHas(d, key) == \E item \in d : item[1] = key

\* d.get(key, default)
DictGet(d, key, default) ==
  IF DictHas(d, key) THEN (CHOOSE item \in d : item[1] = key)[2] ELSE default

RECURSIVE ParsePairs(_, _, _, _)
\* the loop over value_part.split(',')
ParsePairs(param_pairs, k, params, action_value) ==
  IF k > Len(param_pairs)
  THEN [params |-> params, action_value |-> action_value]
  ELSE LET pair == param_pairs[k]
       IN  IF "=" \in Range(pair)
           THEN LET i     == IndexOf(pair, "=")
                    key   == Strip(SubSeq(pair, 1, i - 1))
                    value == Strip(SliceFrom(pair, i))
                IN  ParsePairs(param_pairs, k + 1,
                               IF key # <<>> THEN DictSet(params, key, value)
                                             ELSE params,
                               action_value)
           ELSE ParsePairs(param_pairs, k + 1, params,
                           IF params = NoParams /\ Strip(pair) # <<>>
                           THEN Strip(pair) ELSE action_value)

\* ParseActionItem without lines 58-59: a value found before the parameters
\* stays
ParseActionItemKeepsValue(action_item) ==
  IF ":" \in Range(action_item)
  THEN LET i           == IndexOf(action_item, ":")
           action_type == Strip(SubSeq(action_item, 1, i - 1))
           value_part  == Strip(SliceFrom(action_item, i))
       IN  IF "=" \in Range(value_part)
           THEN LET r == ParsePairs(Split(value_part, ","), 1, NoParams, None)
                IN  [type   |-> action_type,
                     value  |-> r.action_value,
                     params |-> r.params]
           ELSE [type |-> action_type, value |-> value_part, params |-> NoParams]
  ELSE [type |-> action_item, value |-> None, params |-> NoParams]

\* one string item of the action list
ParseActionItem(action_item) ==
  IF ":" \in Range(action_item)
  THEN LET i           == IndexOf(action_item, ":")
           action_type == Strip(SubSeq(action_item, 1, i - 1))
           value_part  == Strip(SliceFrom(action_item, i))
       IN  IF "=" \in Range(value_part)
           THEN LET r == ParsePairs(Split(value_part, ","), 1, NoParams, None)
                IN  [type   |-> action_type,
                     value  |-> IF r.params # NoParams THEN None
                                ELSE r.action_value,
                     params |-> r.params]
           ELSE [type |-> action_type, value |-> value_part, params |-> NoParams]
  ELSE [type |-> action_item, value |-> None, params |-> NoParams]

RECURSIVE ParseItemsReversed(_, _)
\* ParseItems that puts each action before the ones parsed so far
ParseItemsReversed(items, k) ==
  IF k > Len(items) THEN <<>>
  ELSE LET item == items[k]
           rest == ParseItemsReversed(items, k + 1)
       IN  IF ~item.is_str THEN rest
           ELSE LET parsed == ParseActionItem(item.s)
                IN  IF parsed.type = <<>> THEN rest ELSE rest \o <<parsed>>

RECURSIVE ParseItems(_, _)
\* lines 21-73: the loop over the items, from the k-th on
ParseItems(items, k) ==
  IF k > Len(items) THEN <<>>
  ELSE LET item == items[k]
           rest == ParseItems(items, k + 1)
       IN  IF ~item.is_str THEN rest
           ELSE LET parsed == ParseActionItem(item.s)
                IN  IF parsed.type = <<>> THEN rest ELSE <<parsed>> \o rest

\* the action entry of a command: a list of items, or something else
parse_actions(action_config_list) ==
  IF ~action_config_list.is_list THEN <<>>
  ELSE ParseItems(action_config_list.items, 1)

-----------------------------------------------------------------------------
(* The parser harness: one call of parse_actions. *)

\* longest action string, in elements, of the strings taken exhaustively
MaxTokens == 4
\* most comma-separated fragments after the colon of a generated string
MaxFragments == 3
\* longest action list
MaxItems == 3

\* the delimiters of an action string, a blank, and two words
ActionTokens == {":", ",", "=", " ", "k", "v"}

RECURSIVE JoinWith(_, _)
\* d.join(parts)
JoinWith(parts, d) ==
  IF parts = <<>> THEN <<>>
  ELSE IF Len(parts) = 1 THEN parts[1]
  ELSE parts[1] \o <<d>> \o JoinWith(Tail(parts), d)

\* what stands between the commas: a bare word, key=value with and without
\* blanks, with an empty key, an empty value, and a second '='
FragmentPool ==
  { <<>>, <<"v">>, <<" ", "w", " ">>, <<"k", "=", "v">>,
    <<" ", "k", " ", "=", " ", "w">>, <<"k", "=">>, <<"=", "v">>,
    <<"j", "=", "v", "=", "w">> }

TypeParts == { <<>>, <<"t">>, <<" ", "t">>, <<" ">> }

\* type:fragment,fragment,...
StructuredItems ==
  { type_part \o <<":">> \o JoinWith(fragments, ",") :
      type_part \in TypeParts,
      fragments \in SeqsUpTo(FragmentPool, MaxFragments) \ {<<>>} }

RawItems == SeqsUpTo(ActionTokens, MaxTokens) \cup StructuredItems

StrItem(s) == [is_str |-> TRUE, s |-> s]

\* an item of the list that is not a string
NonStrItem == [is_str |-> FALSE, s |-> <<>>]

\* the items of the longer lists: actions of config.py, an item without a
\* type, an empty string, an item that is not a string
ListItemPool ==
  { StrItem(<<"llm">>), StrItem(<<"mode", ":", "llm">>),
    StrItem(<<"t", ":", "k", "=", "v">>), StrItem(<<":", "v">>),
    StrItem(<<>>), NonStrItem }

ParserInputs ==
  {[is_list |-> TRUE, items |-> <<StrItem(s)>>] : s \in RawItems}
    \cup {[is_list |-> TRUE, items |-> items] : items \in SeqsUpTo(ListItemPool, MaxItems)}
    \cup {[is_list |-> FALSE, items |-> <<>>]}

InitParse ==
  /\ LaterUnused
  /\ pa_pc = "call"
  /\ pa_in \in ParserInputs
  /\ pa_out = <<>>
  /\ SignalUnused
  /\ TurnUnused
  /\ OrchestratorUnused
  /\ ExecuteUnused

ParseActions ==
  /\ pa_pc = "call"
  /\ pa_pc' = "returned"
  /\ pa_out' = parse_actions(pa_in)
  /\ UNCHANGED <<pa_in, sig_vars, ap_vars, orch_vars, exec_vars, later_vars>>

NextParse == ParseActions

SpecParse == InitParse /\ [][NextParse]_vars

-----------------------------------------------------------------------------
(* Properties of parse_actions. *)

ParseReturned == pa_pc = "returned"

\* the part of an action string before its first ':', stripped; the whole
\* string when it has no ':'
TypeOf(raw) ==
  IF ":" \in Range(raw) THEN Strip(SubSeq(raw, 1, IndexOf(raw, ":") - 1))
  ELSE raw

\* the part after the first ':', stripped
RestOf(raw) == Strip(SliceFrom(raw, IndexOf(raw, ":")))

\* the items that are strings with a type, in the order of the list
Kept(items) == SelectSeq(items, LAMBDA item : item.is_str /\ TypeOf(item.s) # <<>>)

\* the string has parameters: a ':' and an '=' after it
HasParameters(raw) == ":" \in Range(raw) /\ "=" \in Range(RestOf(raw))

\* a fragment key=value with a key
WellFormed(fragment) ==
  /\ "=" \in Range(fragment)
  /\ Strip(SubSeq(fragment, 1, IndexOf(fragment, "=") - 1)) # <<>>

KeyOf(fragment) == Strip(SubSeq(fragment, 1, IndexOf(fragment, "=") - 1))

ValueOf(fragment) == Strip(SliceFrom(fragment, IndexOf(fragment, "=")))

\* the map of the well-formed fragments, a later one replacing an earlier
\* one of the same key
WellFormedParams(fragments) ==
  { <<KeyOf(fragments[j]), ValueOf(fragments[j])>> :
      j \in { j \in 1..Len(fragments) :
               /\ WellFormed(fragments[j])
               /\ \A l \in (j + 1)..Len(fragments) :
                    WellFormed(fragments[l]) => KeyOf(fragments[l]) # KeyOf(fragments[j]) } }

\* C14: every record parse_actions returns has value None whenever its params
\* are not empty.
C14_ParamsExcludeValue ==
  ParseReturned =>
    \A k \in 1..Len(pa_out) : pa_out[k].params # NoParams => pa_out[k].value = None

\* C14 witness: a record with params whose string has a bare word before the
\* first key=value fragment
C14_Witness ==
  /\ ParseReturned
  /\ Len(pa_in.items) = 1
  /\ Len(pa_out) = 1
  /\ HasParameters(pa_in.items[1].s)
  /\ Strip(Split(RestOf(pa_in.items[1].s), ",")[1]) \notin {<<>>}
  /\ "=" \notin Range(Split(RestOf(pa_in.items[1].s), ",")[1])
  /\ pa_out[1].params # NoParams
  /\ pa_out[1].value = None

\* C15 as stated: for a string type:rest whose rest contains '=', the record
\* has value None and params are exactly the well-formed key=value fragments
\* of rest split on ','; a fragment without '=' never becomes the value.
C15_ParametersNeverCarryValue ==
  (ParseReturned /\ Len(pa_out) = Len(Kept(pa_in.items))) =>
    \A k \in 1..Len(pa_out) :
      HasParameters(Kept(pa_in.items)[k].s) =>
        /\ pa_out[k].value = None
        /\ pa_out[k].params =
             WellFormedParams(Split(RestOf(Kept(pa_in.items)[k].s), ","))

\* the params of a string with parameters are the well-formed fragments, and
\* the value is None when there is one; without one, the first bare fragment
\* that is not blank is the value
C15_ParametersOrFirstBareFragment ==
  (ParseReturned /\ Len(pa_out) = Len(Kept(pa_in.items))) =>
    \A k \in 1..Len(pa_out) :
      HasParameters(Kept(pa_in.items)[k].s) =>
        /\ pa_out[k].params =
             WellFormedParams(Split(RestOf(Kept(pa_in.items)[k].s), ","))
        /\ pa_out[k].params # NoParams => pa_out[k].value = None

\* C16: the output of parse_actions is the input list without the items
\* that are not strings and without those of an empty type, each remaining
\* item parsed in its place, a string without ':' to the record of that
\* type with value None and no params.
C16_OrderPreserved ==
  ParseReturned =>
    /\ Len(pa_out) = Len(Kept(pa_in.items))
    /\ \A k \in 1..Len(pa_out) :
         /\ pa_out[k].type = TypeOf(Kept(pa_in.items)[k].s)
         /\ ":" \notin Range(Kept(pa_in.items)[k].s) =>
              pa_out[k] = [type |-> Kept(pa_in.items)[k].s, value |-> None,
                           params |-> NoParams]

\* C16 witness: a list of three items, one dropped between two different
\* actions that are kept in their order
C16_Witness ==
  /\ ParseReturned
  /\ Len(pa_in.items) = 3
  /\ Len(pa_out) = 2
  /\ pa_in.items[1].is_str
  /\ pa_in.items[3].is_str
  /\ pa_out[1].type = TypeOf(pa_in.items[1].s)
  /\ pa_out[2].type = TypeOf(pa_in.items[3].s)
  /\ pa_out[1].type # pa_out[2].type

-----------------------------------------------------------------------------
(* action_executor.ActionExecutor.execute_actions.  A template is a sequence
   of literal characters and replacement fields, a field one element. *)

Fields == {"{text}", "{clipboard}", "{other}"}

FieldKey(c) ==
  CASE c = "{text}" -> "text" [] c = "{clipboard}" -> "clipboard" [] OTHER -> "other"

Truthy(s) == s # None /\ s # <<>>

RECURSIVE FormatFields(_, _)
FormatFields(template, context) ==
  IF template = <<>> THEN <<>>
  ELSE (IF Head(template) \in Fields THEN context[FieldKey(Head(template))]
        ELSE <<Head(template)>>) \o FormatFields(Tail(template), context)

\* template.format(**context): Raise for a field the context has no key for
Format(template, context) ==
  IF \E i \in 1..Len(template) :
       template[i] \in Fields /\ FieldKey(template[i]) \notin DOMAIN context
  THEN Raise
  ELSE FormatFields(template, context)

\* llm_client.transform_text as the n-th request of the turn: None without a
\* prompt, else what the provider answers, a text, None, or an exception
TransformText(prompt, llm, n) ==
  IF ~Truthy(prompt) THEN None
  ELSE IF n <= Len(llm) THEN llm[n] ELSE None

\* json_formatter.format_ner_json_custom
format_ner_json_custom(data) ==
  IF data.kind = "error" THEN <<"{\"error\": \"">> \o data.error \o <<"\"}">>
  ELSE IF data.kind = "entities" THEN <<"{\"person\": [\"x\"]}">>
  ELSE <<"{}">>

\* float(value)
IsFloat(value) == value \in {<<"0.4">>, <<"0.5">>}

ExecStart ==
  [text_to_paste |-> None, paste_successful |-> FALSE,
   new_processing_mode |-> None, new_stt_hint |-> None,
   model_override |-> None, action_types_executed |-> {},
   llm_calls |-> <<>>, ner_calls |-> <<>>, raised |-> FALSE]

\* lines 80-86: the prompt, None when there is none
LlmPrompt(template, formatted, context) ==
  IF Truthy(template) THEN (IF formatted = Raise THEN None ELSE formatted)
  ELSE IF Truthy(context.text) THEN context.text ELSE None

\* LlmRequest that takes every answer but None for a success
LlmRequestEmptySucceeds(st, prompt, answer) ==
  IF ~Truthy(prompt) THEN [st EXCEPT !.paste_successful = FALSE]
  ELSE IF answer = Raise
  THEN [st EXCEPT !.llm_calls = Append(@, [prompt |-> prompt,
                                            model_override |-> st.model_override]),
                  !.raised = TRUE]
  ELSE [st EXCEPT !.llm_calls = Append(@, [prompt |-> prompt,
                                            model_override |-> st.model_override]),
                  !.text_to_paste = answer,
                  !.paste_successful = (answer # None)]

\* LlmRequest that takes the answer None for a success
LlmRequestNoneSucceeds(st, prompt, answer) ==
  IF ~Truthy(prompt) THEN [st EXCEPT !.paste_successful = FALSE]
  ELSE IF answer = Raise
  THEN [st EXCEPT !.llm_calls = Append(@, [prompt |-> prompt,
                                            model_override |-> st.model_override]),
                  !.raised = TRUE]
  ELSE [st EXCEPT !.llm_calls = Append(@, [prompt |-> prompt,
                                            model_override |-> st.model_override]),
                  !.text_to_paste = answer,
                  !.paste_successful = (answer # <<>>)]

\* lines 88-94, answer what transform_text returns for the prompt
LlmRequest(st, prompt, answer) ==
  IF ~Truthy(prompt) THEN [st EXCEPT !.paste_successful = FALSE]
  ELSE IF answer = Raise
  THEN [st EXCEPT !.llm_calls = Append(@, [prompt |-> prompt,
                                            model_override |-> st.model_override]),
                  !.raised = TRUE]
  ELSE [st EXCEPT !.llm_calls = Append(@, [prompt |-> prompt,
                                            model_override |-> st.model_override]),
                  !.text_to_paste = answer,
                  !.paste_successful = Truthy(answer)]

LlmWithPrompt(st, prompt, env) ==
  LlmRequest(st, prompt, TransformText(prompt, env.llm, Len(st.llm_calls) + 1))

\* lines 77-94
ExecuteLlm(st, parsed_action, context, chosen_signal_config, env) ==
  LlmWithPrompt(
    IF DictHas(parsed_action.params, <<"model">>)
    THEN [st EXCEPT !.model_override =
            DictGet(parsed_action.params, <<"model">>, None)]
    ELSE st,
    LlmPrompt(chosen_signal_config.template,
              IF Truthy(chosen_signal_config.template)
              THEN Format(chosen_signal_config.template, context) ELSE None,
              context),
    env)

\* TemplateFormatted that swallows a failure: no error text is set
TemplateFormattedSwallows(st, formatted) ==
  IF formatted = Raise THEN [st EXCEPT !.paste_successful = FALSE]
  ELSE [st EXCEPT !.text_to_paste = formatted, !.paste_successful = TRUE]

\* lines 114-120, formatted what template_text.format returns
TemplateFormatted(st, formatted) ==
  IF formatted = Raise
  THEN [st EXCEPT !.text_to_paste = <<"Error: Template formatting failed ('other')">>,
                  !.paste_successful = FALSE]
  ELSE [st EXCEPT !.text_to_paste = formatted, !.paste_successful = TRUE]

\* lines 110-124
ExecuteProcessTemplate(st, context, chosen_signal_config) ==
  IF Truthy(chosen_signal_config.template)
  THEN TemplateFormatted(st, Format(chosen_signal_config.template, context))
  ELSE [st EXCEPT !.text_to_paste = <<"Error: process_template action missing template.">>,
                  !.paste_successful = FALSE]

\* lines 131-137: the entity types and the error of finding none
NerTypes(params, spoken_types) ==
  IF DictGet(params, <<"types_source">>, None) = <<"spoken">>
  THEN [types_input_str |-> spoken_types,
        ner_error |-> IF spoken_types = <<>> THEN <<"No types after signal.">>
                      ELSE None]
  ELSE IF DictHas(params, <<"types">>)
  THEN [types_input_str |-> DictGet(params, <<"types">>, <<>>), ner_error |-> None]
  ELSE [types_input_str |-> <<>>, ner_error |-> <<"Missing NER types config.">>]

\* lines 139-148: the text to search, formatted what input_template.format
\* returns
NerInput(types, input_template, formatted, env) ==
  [types_input_str |-> types.types_input_str,
   input_text |->
     IF types.ner_error # None THEN None
     ELSE IF Truthy(input_template)
     THEN (IF formatted = Raise THEN None ELSE formatted)
     ELSE env.clipboard,
   ner_error |->
     IF types.ner_error # None THEN types.ner_error
     ELSE IF Truthy(input_template)
     THEN (IF formatted = Raise THEN <<"Template error ('other').">> ELSE None)
     ELSE IF env.clipboard = None THEN <<"No clipboard.">>
     ELSE IF Strip(env.clipboard) = <<>> THEN <<"Clipboard empty.">>
     ELSE None]

\* lines 150-159: the request to the NER service
NerCall(st, input, threshold, env) ==
  IF input.ner_error # None \/ input.input_text = None
  THEN [st |-> st, ner_error |-> input.ner_error]
  ELSE IF ~IsFloat(threshold)
  THEN [st |-> st, ner_error |-> <<"NER processing error.">>]
  ELSE IF env.ner = "raise"
  THEN [st |-> [st EXCEPT !.ner_calls = Append(@,
                  [text |-> input.input_text,
                   types_input |-> input.types_input_str,
                   threshold |-> threshold])],
        ner_error |-> <<"NER processing error.">>]
  ELSE [st |-> [st EXCEPT !.ner_calls = Append(@,
                  [text |-> input.input_text,
                   types_input |-> input.types_input_str,
                   threshold |-> threshold]),
                !.text_to_paste =
                  format_ner_json_custom([kind |-> env.ner,
                                          error |-> <<"NER service">>]),
                !.paste_successful = env.ner # "error"],
        ner_error |-> None]

\* NerFinish that reports a failure without formatting it
NerFinishUnformatted(call) ==
  IF call.ner_error # None
  THEN [call.st EXCEPT !.text_to_paste = call.ner_error, !.paste_successful = FALSE]
  ELSE call.st

\* lines 162-168
NerFinish(call) ==
  IF call.ner_error # None
  THEN [call.st EXCEPT !.text_to_paste =
            format_ner_json_custom([kind |-> "error", error |-> call.ner_error]),
          !.paste_successful = FALSE]
  ELSE IF call.st.text_to_paste = None
  THEN [call.st EXCEPT !.text_to_paste =
            format_ner_json_custom([kind |-> "error",
                                    error |-> <<"Unknown NER failure.">>]),
          !.paste_successful = FALSE]
  ELSE call.st

\* lines 126-168
ExecuteNerExtract(st, parsed_action, context, chosen_signal_config, env) ==
  NerFinish(
    NerCall(st,
            NerInput(NerTypes(parsed_action.params,
                              RStripChars(Strip(context.text),
                                          {".", ",", "!", "?", ";", ":"})),
                     chosen_signal_config.template,
                     IF Truthy(chosen_signal_config.template)
                     THEN Format(chosen_signal_config.template, context)
                     ELSE None,
                     env),
            DictGet(parsed_action.params, <<"threshold">>, <<"0.5">>),
            env))

\* ExecuteAction whose mode action clears the text to paste
ExecuteActionModeClears(st, parsed_action, context, chosen_signal_config, env) ==
  LET action_type  == parsed_action.type
      action_value == parsed_action.value
      st0 == [st EXCEPT !.action_types_executed = @ \cup {action_type}]
  IN  IF ~Truthy(action_type) THEN st
      ELSE IF action_type = <<"llm">>
      THEN ExecuteLlm(st0, parsed_action, context, chosen_signal_config, env)
      ELSE IF action_type = <<"mode">>
      THEN (IF Truthy(action_value)
            THEN [st0 EXCEPT !.new_processing_mode = action_value,
                             !.text_to_paste = None, !.paste_successful = FALSE]
            ELSE st0)
      ELSE IF action_type = <<"language">>
      THEN (IF Truthy(action_value)
            THEN [st0 EXCEPT !.new_stt_hint = action_value] ELSE st0)
      ELSE IF action_type = <<"process_template">>
      THEN ExecuteProcessTemplate(st0, context, chosen_signal_config)
      ELSE IF action_type = <<"ner_extract">>
      THEN ExecuteNerExtract(st0, parsed_action, context, chosen_signal_config, env)
      ELSE IF action_type = <<"speak">>
      THEN [st0 EXCEPT !.paste_successful = FALSE, !.text_to_paste = None]
      ELSE st0

\* ExecuteAction whose speak action only withdraws the paste flag
ExecuteActionSpeakKeepsText(st, parsed_action, context, chosen_signal_config, env) ==
  LET action_type  == parsed_action.type
      action_value == parsed_action.value
      st0 == [st EXCEPT !.action_types_executed = @ \cup {action_type}]
  IN  IF ~Truthy(action_type) THEN st
      ELSE IF action_type = <<"llm">>
      THEN ExecuteLlm(st0, parsed_action, context, chosen_signal_config, env)
      ELSE IF action_type = <<"mode">>
      THEN (IF Truthy(action_value)
            THEN [st0 EXCEPT !.new_processing_mode = action_value] ELSE st0)
      ELSE IF action_type = <<"language">>
      THEN (IF Truthy(action_value)
            THEN [st0 EXCEPT !.new_stt_hint = action_value] ELSE st0)
      ELSE IF action_type = <<"process_template">>
      THEN ExecuteProcessTemplate(st0, context, chosen_signal_config)
      ELSE IF action_type = <<"ner_extract">>
      THEN ExecuteNerExtract(st0, parsed_action, context, chosen_signal_config, env)
      ELSE IF action_type = <<"speak">>
      THEN [st0 EXCEPT !.paste_successful = FALSE]
      ELSE st0

\* the body of the loop over parsed_actions
ExecuteAction(st, parsed_action, context, chosen_signal_config, env) ==
  LET action_type  == parsed_action.type
      action_value == parsed_action.value
      st0 == [st EXCEPT !.action_types_executed = @ \cup {action_type}]
  IN  IF ~Truthy(action_type) THEN st
      ELSE IF action_type = <<"llm">>
      THEN ExecuteLlm(st0, parsed_action, context, chosen_signal_config, env)
      ELSE IF action_type = <<"mode">>
      THEN (IF Truthy(action_value)
            THEN [st0 EXCEPT !.new_processing_mode = action_value] ELSE st0)
      ELSE IF action_type = <<"language">>
      THEN (IF Truthy(action_value)
            THEN [st0 EXCEPT !.new_stt_hint = action_value] ELSE st0)
      ELSE IF action_type = <<"process_template">>
      THEN ExecuteProcessTemplate(st0, context, chosen_signal_config)
      ELSE IF action_type = <<"ner_extract">>
      THEN ExecuteNerExtract(st0, parsed_action, context, chosen_signal_config, env)
      ELSE IF action_type = <<"speak">>
      THEN [st0 EXCEPT !.paste_successful = FALSE, !.text_to_paste = None]
      ELSE st0

RECURSIVE ExecuteFrom(_, _, _, _, _, _)
ExecuteFrom(parsed_actions, k, st, context, chosen_signal_config, env) ==
  IF k > Len(parsed_actions) \/ st.raised THEN st
  ELSE ExecuteFrom(parsed_actions, k + 1,
                   ExecuteAction(st, parsed_actions[k], context,
                                 chosen_signal_config, env),
                   context, chosen_signal_config, env)

\* ActionResults whose flag looks at the hint alone
ActionResultsHintOnly(st) ==
  [text_to_paste        |-> st.text_to_paste,
   paste_successful     |-> st.paste_successful,
   only_language_action |-> st.new_stt_hint # None,
   new_mode             |-> st.new_processing_mode,
   new_stt_hint         |-> st.new_stt_hint,
   llm_calls            |-> st.llm_calls,
   ner_calls            |-> st.ner_calls,
   raised               |-> st.raised]

\* lines 186-205: the results dictionary, a key that is absent from it None
\* here, with the requests made of the collaborators; raised: an exception
\* left the call
ActionResults(st) ==
  [text_to_paste        |-> st.text_to_paste,
   paste_successful     |-> st.paste_successful,
   only_language_action |-> /\ st.new_stt_hint # None
                            /\ st.action_types_executed \ {<<"language">>} = {},
   new_mode             |-> st.new_processing_mode,
   new_stt_hint         |-> st.new_stt_hint,
   llm_calls            |-> st.llm_calls,
   ner_calls            |-> st.ner_calls,
   raised               |-> st.raised]

execute_actions(parsed_actions, context, chosen_signal_config, env) ==
  ActionResults(ExecuteFrom(parsed_actions, 1, ExecStart, context,
                            chosen_signal_config, env))

-----------------------------------------------------------------------------
(* clipboard.ClipboardManager.clean_output_text *)

\* the phrases of exclusion_patterns that the transcripts of the model can form
ExclusionPhrases == { <<"y", "o", "u">> }

\* a pattern is ^\s*phrase[.!?]?\s*$, searched ignoring case; t the text
\* stripped and lowered
MatchesExclusionPattern(t) ==
  (IF t # <<>> /\ t[Len(t)] \in {".", "!", "?"}
   THEN SubSeq(t, 1, Len(t) - 1) ELSE t) \in ExclusionPhrases

contains_filter_phrase(text) == MatchesExclusionPattern(Lower(Strip(text)))

\* clean_output_text without the filter
CleanOutputTextUnfiltered(text) == Strip(text)

clean_output_text(text) ==
  IF contains_filter_phrase(text) THEN <<>> ELSE Strip(text)

-----------------------------------------------------------------------------
(* audio_processor.AudioProcessor.process_audio.  The speech-to-text, LLM,
   clipboard and NER collaborators answer as the input record says: stt1 and
   stt2 are the segments of the first and of the second transcription (or
   Raise), env.llm the provider's answers in request order. *)

RECURSIVE SanitizeText(_)
\* _sanitize_text: text.replace('ß', 'ss')
SanitizeText(text) ==
  IF text = <<>> THEN <<>>
  ELSE (IF Head(text) = "ß" THEN <<"s", "s">> ELSE <<Head(text)>>)
         \o SanitizeText(Tail(text))

RECURSIVE AccumulateSegments(_, _, _)
\* lines 167-176: the loop over the segments of the first transcription
AccumulateSegments(segments, k, accumulated_raw_text) ==
  IF k > Len(segments) THEN accumulated_raw_text
  ELSE LET segment_text == Strip(segments[k])
       IN  IF segment_text = <<>>
           THEN AccumulateSegments(segments, k + 1, accumulated_raw_text)
           ELSE AccumulateSegments(segments, k + 1,
                  accumulated_raw_text
                    \o (IF accumulated_raw_text # <<>> THEN <<" ">> ELSE <<>>)
                    \o SanitizeText(segment_text))

RECURSIVE JoinStripped(_, _)
\* " ".join(segment.text.strip() for segment in all_segments), from the k-th on
JoinStripped(segments, k) ==
  IF k > Len(segments) THEN <<>>
  ELSE Strip(segments[k])
         \o (IF k < Len(segments) THEN <<" ">> ELSE <<>>)
         \o JoinStripped(segments, k + 1)

\* s.find(w)
Find(s, w) ==
  IF Contains(s, w)
  THEN CHOOSE i \in 0..(Len(s) - Len(w)) :
         /\ SubSeq(s, i + 1, i + Len(w)) = w
         /\ \A j \in 0..(i - 1) : SubSeq(s, j + 1, j + Len(w)) # w
  ELSE -1

\* chosen_signal_config.get('signal_phrase', [''])[0].lower(): the first
\* phrase of a list, the first character of a string
SignalWord(config) ==
  CASE config.signal_phrase.kind = "list" /\ config.signal_phrase.list # <<>>
         -> Lower(config.signal_phrase.list[1])
    [] config.signal_phrase.kind = "str" /\ config.signal_phrase.str # <<>>
         -> Lower(<<config.signal_phrase.str[1]>>)
    [] OTHER -> Raise

\* self.commands_by_name.get(name): the last command of that name, 0 for None
CommandByName(signal_configs, name) ==
  IF \E i \in 1..Len(signal_configs) : signal_configs[i].name = name
  THEN CHOOSE i \in 1..Len(signal_configs) :
         /\ signal_configs[i].name = name
         /\ \A j \in (i + 1)..Len(signal_configs) : signal_configs[j].name # name
  ELSE 0

Pasted(text_to_paste, paste_successful, llm_calls, raised) ==
  [text_to_paste |-> text_to_paste, paste_successful |-> paste_successful,
   llm_calls |-> llm_calls, raised |-> raised]

\* what transform_text made of the prompt
LlmPasted(prompt, model_override, transformed_text) ==
  Pasted(transformed_text, transformed_text # None,
         <<[prompt |-> prompt, model_override |-> model_override]>>,
         transformed_text = Raise)

\* the prompt of a mode's template sent to the LLM
ProcessByPrompt(prompt, model_override, llm, n) ==
  IF prompt = Raise THEN Pasted(None, FALSE, <<>>, TRUE)
  ELSE LlmPasted(prompt, model_override, TransformText(prompt, llm, n))

\* the mode whose command is the i-th of the table, 0 for a mode without
ProcessByCommand(i, mode, cleaned_text, signal_configs, llm, n) ==
  IF i # 0 /\ Truthy(signal_configs[i].template)
  THEN ProcessByPrompt(Format(signal_configs[i].template, [text |-> cleaned_text]),
                       signal_configs[i].llm_model_override, llm, n)
  ELSE Pasted(<<"Error: Config for mode '">> \o mode \o <<"' missing.">>,
              FALSE, <<>>, FALSE)

\* ProcessByMode whose normal mode pastes the text in lower case
ProcessByModeLowered(mode, cleaned_text, signal_configs, llm, n) ==
  IF mode = <<"normal">> THEN Pasted(Lower(cleaned_text), TRUE, <<>>, FALSE)
  ELSE IF mode = <<"llm">>
  THEN LlmPasted(cleaned_text, None, TransformText(cleaned_text, llm, n))
  ELSE IF mode = <<"de-CH">>
  THEN ProcessByCommand(CommandByName(signal_configs, <<"mode:de-CH">>), mode,
                        cleaned_text, signal_configs, llm, n)
  ELSE Pasted(<<"Error: Unknown mode '">> \o mode \o <<"'">>, FALSE, <<>>, FALSE)

\* lines 251-285, 305-339 and 350-384: the cleaned text handled by the mode,
\* the LLM request, if one is made, the n-th of the turn
ProcessByMode(mode, cleaned_text, signal_configs, llm, n) ==
  IF mode = <<"normal">> THEN Pasted(cleaned_text, TRUE, <<>>, FALSE)
  ELSE IF mode = <<"llm">>
  THEN LlmPasted(cleaned_text, None, TransformText(cleaned_text, llm, n))
  ELSE IF mode = <<"de-CH">>
  THEN ProcessByCommand(CommandByName(signal_configs, <<"mode:de-CH">>), mode,
                        cleaned_text, signal_configs, llm, n)
  ELSE Pasted(<<"Error: Unknown mode '">> \o mode \o <<"'">>, FALSE, <<>>, FALSE)

ProcessAudioResult(text_to_paste, new_processing_mode, new_stt_hint, paste_successful) ==
  [text_to_paste |-> text_to_paste, new_processing_mode |-> new_processing_mode,
   new_stt_hint |-> new_stt_hint, paste_successful |-> paste_successful]

NoActionResults ==
  [text_to_paste |-> None, paste_successful |-> FALSE,
   only_language_action |-> FALSE, new_mode |-> None, new_stt_hint |-> None,
   llm_calls |-> <<>>, ner_calls |-> <<>>, raised |-> FALSE]

\* what a turn returns, with what it did on the way: the languages of its
\* transcriptions, the command it chose (0 for none) and the residual text,
\* the parsed actions and their results, the LLM requests of the whole turn,
\* and the branch it returned from
TurnOutcome(result, stt_calls, found, parsed_actions, action_results, llm_calls, path) ==
  [result |-> result, stt_calls |-> stt_calls, chosen |-> found.config,
   text_for_signal_handler |-> found.text_for_handler,
   parsed_actions |-> parsed_actions, action_results |-> action_results,
   llm_calls |-> llm_calls, path |-> path]

\* a variant of NewMode that falls back to the normal mode
NewModeReset(action_results, new_processing_mode) ==
  IF action_results.new_mode # None THEN action_results.new_mode ELSE <<"normal">>

\* line 220: action_results.get('new_mode', new_processing_mode)
NewMode(action_results, new_processing_mode) ==
  IF action_results.new_mode # None THEN action_results.new_mode
  ELSE new_processing_mode

\* line 221: action_results.get('new_stt_hint', new_stt_hint)
NewSttHint(action_results, new_stt_hint) ==
  IF action_results.new_stt_hint # None THEN action_results.new_stt_hint
  ELSE new_stt_hint

\* lines 154-158
HintForThisRun(in) ==
  IF Truthy(in.current_stt_hint) THEN in.current_stt_hint
  ELSE in.default_stt_language

\* lines 119-131 and 392-403: nothing to paste, mode and hint as they came
Original(in) ==
  ProcessAudioResult(None, in.current_processing_mode, in.current_stt_hint, FALSE)

\* lines 286-293: what the mode made of the second transcript; an exception
\* stays in the rerun
RerunHandled(handled) ==
  IF handled.raised THEN Pasted(None, FALSE, handled.llm_calls, FALSE)
  ELSE handled

\* lines 244-250: the second transcript after the signal word
RerunCleanedText(full_text, signal_word, signal_pos) ==
  IF signal_pos # -1
  THEN clean_output_text(
         LStripChars(Strip(SliceFrom(full_text, signal_pos + Len(signal_word))),
                     StripSet))
  ELSE clean_output_text(Strip(full_text))

\* lines 251-293
RerunCleaned(in, new_processing_mode, n, cleaned_text) ==
  IF ~Truthy(cleaned_text) THEN Pasted(None, FALSE, <<>>, FALSE)
  ELSE RerunHandled(ProcessByMode(new_processing_mode, cleaned_text,
                                  in.signal_configs, in.env.llm, n))

\* lines 238-250
RerunTranscribed(in, new_processing_mode, n, full_text, signal_word) ==
  IF signal_word = Raise THEN Pasted(None, FALSE, <<>>, FALSE)
  ELSE RerunCleaned(in, new_processing_mode, n,
                    RerunCleanedText(full_text, signal_word,
                                     Find(Lower(full_text), signal_word)))

\* lines 227-297: the second transcription, with the new hint
RerunWithNewHint(in, chosen_signal_config, new_processing_mode, n) ==
  IF in.stt2 = Raise THEN Pasted(None, FALSE, <<>>, FALSE)
  ELSE RerunTranscribed(in, new_processing_mode, n, JoinStripped(in.stt2, 1),
                        SignalWord(chosen_signal_config))

\* lines 213-216: the context of the actions
SignalContext(in, found) ==
  [text      |-> IF Truthy(found.text_for_handler) THEN found.text_for_handler
                 ELSE <<>>,
   clipboard |-> IF Truthy(in.env.clipboard) THEN in.env.clipboard ELSE <<>>]

\* the locals of a turn that a command matched, after its actions
SignalLocals(in, found, parsed_actions, action_results) ==
  [in |-> in, found |-> found, parsed_actions |-> parsed_actions,
   action_results |-> action_results,
   new_processing_mode |-> NewMode(action_results, in.current_processing_mode),
   new_stt_hint |-> NewSttHint(action_results, in.current_stt_hint),
   n |-> Len(action_results.llm_calls) + 1]

\* what a turn that a command matched returns: handled is what was made of
\* the text after the actions
SignalOutcome(l, result, stt_calls, llm_calls, path) ==
  TurnOutcome(result, stt_calls, l.found, l.parsed_actions, l.action_results,
              l.action_results.llm_calls \o llm_calls, path)

\* lines 227-297, 380-385
SignalRerun(l, handled) ==
  SignalOutcome(l, ProcessAudioResult(handled.text_to_paste, l.new_processing_mode,
                                      l.new_stt_hint, handled.paste_successful),
                <<HintForThisRun(l.in), l.new_stt_hint>>, handled.llm_calls, "rerun")

\* lines 340-343, 380-385: nothing is left to dispatch
SignalOnly(l) ==
  SignalOutcome(l, ProcessAudioResult(None, l.new_processing_mode,
                                      l.new_stt_hint, FALSE),
                <<HintForThisRun(l.in)>>, <<>>, "signal_only")

\* lines 305-339, 380-403
SignalResidualHandled(l, handled) ==
  IF handled.raised
  THEN SignalOutcome(l, Original(l.in), <<HintForThisRun(l.in)>>,
                     handled.llm_calls, "exception")
  ELSE SignalOutcome(l, ProcessAudioResult(handled.text_to_paste,
                                           l.new_processing_mode, l.new_stt_hint,
                                           handled.paste_successful),
                     <<HintForThisRun(l.in)>>, handled.llm_calls, "residual")

\* lines 300-343: the residual text, cleaned
SignalResidual(l, cleaned_text) ==
  IF Truthy(cleaned_text)
  THEN SignalResidualHandled(l, ProcessByMode(l.new_processing_mode, cleaned_text,
                                              l.in.signal_configs, l.in.env.llm,
                                              l.n))
  ELSE SignalOnly(l)

\* lines 220-343
SignalDispatch(l) ==
  IF l.action_results.raised
  THEN SignalOutcome(l, Original(l.in), <<HintForThisRun(l.in)>>, <<>>, "exception")
  ELSE IF Truthy(l.new_stt_hint) /\ l.new_stt_hint # l.in.current_stt_hint
  THEN SignalRerun(l, RerunWithNewHint(l.in, l.in.signal_configs[l.found.config],
                                       l.new_processing_mode, l.n))
  ELSE IF Truthy(l.found.text_for_handler)
  THEN SignalResidual(l, clean_output_text(Strip(l.found.text_for_handler)))
  ELSE SignalOnly(l)

\* lines 219-221
SignalParsed(in, found, parsed_actions) ==
  SignalDispatch(
    SignalLocals(in, found, parsed_actions,
                 execute_actions(parsed_actions, SignalContext(in, found),
                                 in.signal_configs[found.config], in.env)))

\* lines 207-343: the turn of a transcript that a command matched
SignalTurn(in, found) ==
  SignalParsed(in, found, parse_actions(in.signal_configs[found.config].action))

\* lines 346-385: the turn of a transcript that no command matched
NoSignalTurn(in, handled) ==
  IF handled.raised
  THEN TurnOutcome(Original(in), <<HintForThisRun(in)>>, NoSignal, <<>>,
                   NoActionResults, handled.llm_calls, "exception")
  ELSE TurnOutcome(ProcessAudioResult(handled.text_to_paste,
                                      in.current_processing_mode,
                                      in.current_stt_hint,
                                      handled.paste_successful),
                   <<HintForThisRun(in)>>, NoSignal, <<>>, NoActionResults,
                   handled.llm_calls, "no_signal")

\* lines 198-385
TurnOfFound(in, cleaned_text, found) ==
  IF found = SignalRaised
  THEN TurnOutcome(Original(in), <<HintForThisRun(in)>>, NoSignal, <<>>,
                   NoActionResults, <<>>, "exception")
  ELSE IF found.config # 0 THEN SignalTurn(in, found)
  ELSE NoSignalTurn(in, ProcessByMode(in.current_processing_mode, cleaned_text,
                                      in.signal_configs, in.env.llm, 1))

\* lines 191-385
TurnOfCleanedText(in, cleaned_text) ==
  IF ~Truthy(cleaned_text)
  THEN TurnOutcome(Original(in), <<HintForThisRun(in)>>, NoSignal, <<>>,
                   NoActionResults, <<>>, "empty")
  ELSE TurnOfFound(in, cleaned_text,
                   find_matching_signal(cleaned_text, in.signal_configs))

\* lines 89-416
process_audio(in) ==
  IF ~in.frames
  THEN TurnOutcome(Original(in), <<>>, NoSignal, <<>>, NoActionResults, <<>>,
                   "no_frames")
  ELSE IF in.stt1 = Raise
  THEN TurnOutcome(Original(in), <<HintForThisRun(in)>>, NoSignal, <<>>,
                   NoActionResults, <<>>, "exception")
  ELSE TurnOfCleanedText(in, clean_output_text(
                               Strip(AccumulateSegments(in.stt1, 1, <<>>))))

-----------------------------------------------------------------------------
(* Turns of process_audio: the command table of config.py, a phrase
   shortened to its first letter and a template to its fields, and the
   transcripts that reach each branch of the turn. *)

Command(name, signal_phrase, match_position, action, template, llm_model_override) ==
  [name |-> name, signal_phrase |-> signal_phrase,
   match_position |-> match_position, action |-> action,
   template |-> template, llm_model_override |-> llm_model_override]

\* an action entry that is a list of strings
ActionList(strs) ==
  [is_list |-> TRUE,
   items |-> [i \in 1..Len(strs) |-> [is_str |-> TRUE, s |-> strs[i]]]]

ConfigCommands ==
  << Command(<<"language:de">>, ListPhrase(<< <<"g">>, <<"c">> >>), "start",
             ActionList(<< <<"language", ":", "de-DE">>, <<"mode", ":", "normal">> >>),
             None, None),
     Command(<<"language:en">>, ListPhrase(<< <<"e">> >>), "start",
             ActionList(<< <<"language", ":", "en-US">>, <<"mode", ":", "normal">> >>),
             None, None),
     Command(<<"mode:de-CH">>, ListPhrase(<< <<"w">> >>), "start",
             ActionList(<< <<"mode", ":", "de-CH">> >>),
             <<"T", ":", "{text}">>, <<"claude-3-haiku-20240307">>),
     Command(<<"mode:llm">>, StrPhrase(<<"l">>), "exact",
             ActionList(<< <<"mode", ":", "llm">> >>),
             <<"{text}", ":", "{clipboard}">>, None),
     Command(<<"template:create_prompt">>, ListPhrase(<< <<"p">> >>), "start",
             ActionList(<< <<"process_template">> >>), <<"P">>, None),
     Command(<<"speak:en">>, StrPhrase(<<"r">>), "start",
             ActionList(<< <<"speak", ":", "en">> >>), <<"{clipboard}">>, None),
     Command(<<"llm:short_summary">>, StrPhrase(<<"s">>), "start",
             ActionList(<< <<"llm">> >>), <<"S", ":", "{clipboard}">>, None),
     Command(<<"ner:extract_entities">>, ListPhrase(<< <<"f">> >>), "start",
             ActionList(<< <<"ner_extract", ":", "types_source", "=", "spoken">> >>),
             <<"{clipboard}">>, None),
     Command(<<"transform:url">>, ListPhrase(<< <<"d">> >>), "start",
             ActionList(<< <<"shell_command">> >>), None, None) >>

\* a table with a command spoken with a courtesy phrase the filter drops, and
\* a command whose only action sets the language hint
OtherCommands ==
  << Command(<<"template:courtesy">>, StrPhrase(<<"y", "o", "u">>), "anywhere",
             ActionList(<< <<"process_template">> >>), <<"P">>, None),
     Command(<<"language:only">>, StrPhrase(<<"h">>), "start",
             ActionList(<< <<"language", ":", "de-DE">> >>), None, None) >>

\* COMMANDS as config.py has it, an empty list, and the other table
TurnTables == {ConfigCommands, <<>>, OtherCommands}

\* what a transcription yields: the texts of its segments, or an exception
FirstTranscriptions ==
  { Raise,
    <<>>,
    << <<" ">> >>,
    << <<"Y", "o", "u", "!">> >>,
    << <<"x">>, <<" ">>, <<" ", "ß", " ">> >>,
    << <<"s">> >>,
    << <<"S", ",", " ", "x">> >>,
    << <<"g">> >>,
    << <<"G", " ", "x">> >>,
    << <<"e", " ", "y", "o", "u">> >>,
    << <<"w", " ", "x">> >>,
    << <<"l", ".">> >>,
    << <<"p", " ", "x">> >>,
    << <<"r">> >>,
    << <<"f">> >>,
    << <<"f", " ", "x", ".">> >>,
    << <<"d", " ", "x">> >>,
    << <<"h", " ", "x">> >> }

SecondTranscriptions ==
  { Raise,
    <<>>,
    << <<" ", "g", ",">>, <<"x", " ">> >>,
    << <<"x">>, <<"e">>, <<"x">> >> }

Modes == { <<"normal">>, <<"llm">>, <<"de-CH">>, <<"fr">> }

Hints == { None, <<"de-DE">>, <<"en-US">> }

\* the provider's answers to the first and to the second request of a turn
LlmAnswers ==
  { <<first, second>> : first \in {None, <<>>, <<"R">>, Raise},
                        second \in {None, <<"Q">>} }

Environments ==
  [llm : LlmAnswers, clipboard : {None, <<>>, <<"c">>},
   ner : {"entities", "error", "raise"}]

TurnInputs ==
  [frames : {TRUE}, current_processing_mode : Modes, current_stt_hint : Hints,
   default_stt_language : { <<"en">> }, signal_configs : TurnTables,
   stt1 : FirstTranscriptions, stt2 : SecondTranscriptions, env : Environments]
  \cup
  [frames : {FALSE}, current_processing_mode : Modes, current_stt_hint : Hints,
   default_stt_language : { <<"en">> }, signal_configs : {ConfigCommands},
   stt1 : {<<>>}, stt2 : {<<>>},
   env : [llm : {<<None, None>>}, clipboard : {None}, ner : {"entities"}]]

InitTurn ==
  /\ LaterUnused
  /\ SignalUnused
  /\ OrchestratorUnused
  /\ ParseUnused
  /\ ExecuteUnused
  /\ ap_pc = "call"
  /\ ap_in \in TurnInputs
  /\ ap_out = <<>>

ProcessAudio ==
  /\ ap_pc = "call"
  /\ ap_pc' = "returned"
  /\ ap_out' = process_audio(ap_in)
  /\ UNCHANGED <<ap_in, sig_vars, orch_vars, parse_vars, exec_vars,
                 later_vars>>

NextTurn == ProcessAudio

SpecTurn == InitTurn /\ [][NextTurn]_vars

-----------------------------------------------------------------------------
(* Claims about a turn of process_audio *)

TurnReturned == ap_pc = "returned"

\* the command the turn chose
TurnConfig == ap_in.signal_configs[ap_out.chosen]

\* the turn chose a Start command whose action list is [llm] and which has a
\* template
LlmCommandTurn ==
  /\ TurnReturned
  /\ ap_out.chosen # 0
  /\ TurnConfig.match_position = "start"
  /\ TurnConfig.action = ActionList(<< <<"llm">> >>)
  /\ Truthy(TurnConfig.template)

\* the template of the chosen command, rendered as execute_actions renders it
RenderedTemplate ==
  Format(TurnConfig.template,
         [text      |-> IF Truthy(ap_out.text_for_signal_handler)
                        THEN ap_out.text_for_signal_handler ELSE <<>>,
          clipboard |-> IF Truthy(ap_in.env.clipboard)
                        THEN ap_in.env.clipboard ELSE <<>>])

\* the first transcription of the turn, its segments joined
FirstTranscript == Strip(AccumulateSegments(ap_in.stt1, 1, <<>>))

\* the transcript is a courtesy phrase of the filter, with or without a
\* closing punctuation mark
IsCourtesyPhrase(text) ==
  \E phrase \in ExclusionPhrases :
    Lower(text) \in { phrase, phrase \o <<".">>, phrase \o <<"!">>, phrase \o <<"?">> }

\* the turn transcribed, and the cleaned transcript is empty
EmptyOrFiltered ==
  /\ TurnReturned
  /\ ap_in.frames
  /\ ap_in.stt1 # Raise
  /\ FirstTranscript = <<>> \/ IsCourtesyPhrase(FirstTranscript)

\* C2: when the transcript matches a Start command whose action list is [llm]
\* and which has a template, the LLM is invoked with the rendered template,
\* and when it returns a non-empty response the turn's result has
\* paste_successful = True and text_to_paste equal to that response.
C2_LlmCommandPastesResponse ==
  LlmCommandTurn =>
    /\ ap_out.llm_calls # <<>>
    /\ ap_out.llm_calls[1].prompt = RenderedTemplate
    /\ (Truthy(ap_in.env.llm[1]) /\ ap_in.env.llm[1] # Raise)
         => /\ ap_out.result.paste_successful
            /\ ap_out.result.text_to_paste = ap_in.env.llm[1]

\* the part of C2 that the turn does keep: the LLM is invoked with the
\* rendered template, and execute_actions reports the response as the text
\* to paste
C2_ExecutorReportsResponse ==
  LlmCommandTurn =>
    /\ ap_out.llm_calls # <<>>
    /\ ap_out.llm_calls[1].prompt = RenderedTemplate
    /\ (Truthy(ap_in.env.llm[1]) /\ ap_in.env.llm[1] # Raise)
         => /\ ap_out.action_results.paste_successful
            /\ ap_out.action_results.text_to_paste = ap_in.env.llm[1]

\* a mode action with a non-empty value is among the actions of the turn
ModeActionExecuted ==
  \E k \in 1..Len(ap_out.parsed_actions) :
    /\ ap_out.parsed_actions[k].type = <<"mode">>
    /\ Truthy(ap_out.parsed_actions[k].value)

\* C4: for every turn in which no executed action has type mode with a
\* non-empty value, and for every turn that ends in a pipeline exception, the
\* returned new_processing_mode is the current_processing_mode passed in.
C4_ModeOnlyChangedByModeAction ==
  TurnReturned =>
    /\ ~ModeActionExecuted
         => ap_out.result.new_processing_mode = ap_in.current_processing_mode
    /\ ap_out.path = "exception"
         => ap_out.result.new_processing_mode = ap_in.current_processing_mode

\* C4 witness: in a mode other than normal a command without a mode action
\* was executed, its residual text handled, and the mode returned unchanged
C4_Witness ==
  /\ TurnReturned
  /\ ap_out.chosen # 0
  /\ ap_out.parsed_actions # <<>>
  /\ ~ModeActionExecuted
  /\ ap_out.path = "residual"
  /\ ap_in.current_processing_mode = <<"llm">>
  /\ ap_out.result.new_processing_mode = <<"llm">>

-----------------------------------------------------------------------------
(* The executor harness: one call of execute_actions on a list of parsed
   actions, with a context, the template of the matched command, and the
   answers of the collaborators. *)

\* longest list of parsed actions
MaxActions == 3

ParsedAction(type, value, params) == [type |-> type, value |-> value, params |-> params]

\* the actions of config.py, with the values and parameters that reach the
\* branches of the executor
ExecActionPool ==
  { ParsedAction(<<"llm">>, None, NoParams),
    ParsedAction(<<"process_template">>, None, NoParams),
    ParsedAction(<<"ner_extract">>, None, { << <<"types">>, <<"person">> >> }),
    ParsedAction(<<"ner_extract">>, None, { << <<"types_source">>, <<"spoken">> >> }),
    ParsedAction(<<"ner_extract">>, None, NoParams),
    ParsedAction(<<"ner_extract">>, None, { << <<"types">>, <<"person">> >>,
                                            << <<"threshold">>, <<"high">> >> }),
    ParsedAction(<<"mode">>, <<"llm">>, NoParams),
    ParsedAction(<<"mode">>, <<>>, NoParams),
    ParsedAction(<<"language">>, <<"de-DE">>, NoParams),
    ParsedAction(<<"language">>, None, NoParams),
    ParsedAction(<<"speak">>, <<"en">>, NoParams),
    ParsedAction(<<"shell_command">>, None, NoParams) }

\* the template of the matched command: none, one that renders to the
\* residual text, one with literal text, one with a field the context lacks
ExecTemplates ==
  { None, <<"{text}">>, <<"T", "{text}", "{clipboard}">>, <<"{other}">> }

\* the collaborators: the LLM's answers in request order, the clipboard, the
\* NER service
ExecEnvironments ==
  { [llm |-> << <<"R">>, <<"Q">> >>, clipboard |-> <<"c">>, ner |-> "entities"],
    [llm |-> << <<>>, <<"Q">> >>,    clipboard |-> <<>>,    ner |-> "error"],
    [llm |-> << None, <<"Q">> >>,    clipboard |-> None,    ner |-> "raise"],
    [llm |-> << Raise, <<"Q">> >>,   clipboard |-> <<"c">>, ner |-> "entities"] }

ExecutorInputs ==
  { [parsed_actions |-> parsed_actions,
     context |-> [text |-> text,
                  clipboard |-> IF Truthy(env.clipboard) THEN env.clipboard ELSE <<>>],
     chosen_signal_config |-> [template |-> template],
     env |-> env] :
      parsed_actions \in SeqsUpTo(ExecActionPool, MaxActions),
      text \in { <<>>, <<"x">> },
      template \in ExecTemplates,
      env \in ExecEnvironments }

InitExecute ==
  /\ LaterUnused
  /\ ex_pc = "call"
  /\ ex_in \in ExecutorInputs
  /\ ex_out = <<>>
  /\ SignalUnused
  /\ TurnUnused
  /\ OrchestratorUnused
  /\ ParseUnused

ExecuteActions ==
  /\ ex_pc = "call"
  /\ ex_pc' = "returned"
  /\ ex_out' = execute_actions(ex_in.parsed_actions, ex_in.context,
                               ex_in.chosen_signal_config, ex_in.env)
  /\ UNCHANGED <<ex_in, sig_vars, ap_vars, orch_vars, parse_vars, later_vars>>

NextExecute == ExecuteActions

SpecExecute == InitExecute /\ [][NextExecute]_vars

-----------------------------------------------------------------------------
(* Properties of execute_actions. *)

ExecReturned == ex_pc = "returned"

\* the call of execute_actions on the first k actions of the list
ResultOfFirst(k) ==
  execute_actions(SubSeq(ex_in.parsed_actions, 1, k), ex_in.context,
                  ex_in.chosen_signal_config, ex_in.env)

\* the last action of the list and the call on the actions before it
LastAction == ex_in.parsed_actions[Len(ex_in.parsed_actions)]

BeforeLast == ResultOfFirst(Len(ex_in.parsed_actions) - 1)

\* the list ends in an action of this type, and the actions before it
\* raised nothing
EndsIn(type) ==
  /\ ExecReturned
  /\ ex_in.parsed_actions # <<>>
  /\ LastAction.type = type
  /\ ~BeforeLast.raised

\* the actions that produce output
OutputTypes == { <<"llm">>, <<"process_template">>, <<"ner_extract">> }

OutputActions ==
  { k \in 1..Len(ex_in.parsed_actions) : ex_in.parsed_actions[k].type \in OutputTypes }

\* the last action of the list that produces output
LastOutputAction == CHOOSE k \in OutputActions : \A l \in OutputActions : l <= k

\* what the k-th action produces, whatever the ones before it produced: the
\* action executed after them on a result without text
ProducedBy(k) ==
  ExecuteAction(
    [ExecuteFrom(SubSeq(ex_in.parsed_actions, 1, k - 1), 1, ExecStart, ex_in.context,
                 ex_in.chosen_signal_config, ex_in.env)
       EXCEPT !.text_to_paste = None, !.paste_successful = FALSE],
    ex_in.parsed_actions[k], ex_in.context, ex_in.chosen_signal_config, ex_in.env)

\* C17 as stated: when the list has two or more output-producing actions,
\* text_to_paste and paste_successful of the result are those the last of
\* them produced, whatever the earlier ones produced.
C17_LastActionWins ==
  (ExecReturned /\ ~ex_out.raised /\ Cardinality(OutputActions) >= 2) =>
    /\ ex_out.text_to_paste = ProducedBy(LastOutputAction).text_to_paste
    /\ ex_out.paste_successful = ProducedBy(LastOutputAction).paste_successful

\* the last output-producing action wins when it is process_template or
\* ner_extract, or an llm action with a prompt, and no speak action follows
C17_LastActionWithOutputWins ==
  (/\ ExecReturned
   /\ ~ex_out.raised
   /\ Cardinality(OutputActions) >= 2
   /\ \A k \in (LastOutputAction + 1)..Len(ex_in.parsed_actions) :
        ex_in.parsed_actions[k].type # <<"speak">>
   /\ \/ ex_in.parsed_actions[LastOutputAction].type # <<"llm">>
      \/ Len(ResultOfFirst(LastOutputAction).llm_calls)
           > Len(ResultOfFirst(LastOutputAction - 1).llm_calls))
    => /\ ex_out.text_to_paste = ProducedBy(LastOutputAction).text_to_paste
       /\ ex_out.paste_successful = ProducedBy(LastOutputAction).paste_successful

\* the list without its actions of the types
WithoutTypes(parsed_actions, types) ==
  SelectSeq(parsed_actions, LAMBDA a : a.type \notin types)

\* the values of the actions of a type that have one, in list order
ValuesOf(type) ==
  SelectSeq(ex_in.parsed_actions, LAMBDA a : a.type = type /\ Truthy(a.value))

\* the value the last action of the type set, None when none did
LastValueOf(type) ==
  IF ValuesOf(type) = <<>> THEN None ELSE ValuesOf(type)[Len(ValuesOf(type))].value

\* the results without the flag only_language_action
StateAndOutput(results) ==
  [text_to_paste |-> results.text_to_paste,
   paste_successful |-> results.paste_successful,
   new_mode |-> results.new_mode, new_stt_hint |-> results.new_stt_hint,
   raised |-> results.raised]

\* C18 as stated: a mode action with a value sets new_mode, a language
\* action with a value sets new_stt_hint, neither changes text_to_paste or
\* paste_successful, and an action of these types with an empty value
\* changes nothing: the results are those of the list without it.
C18_ModeAndLanguageStateOnly ==
  (ExecReturned /\ ~ex_out.raised) =>
    /\ ex_out.new_mode = LastValueOf(<<"mode">>)
    /\ ex_out.new_stt_hint = LastValueOf(<<"language">>)
    /\ LET without == execute_actions(
                        WithoutTypes(ex_in.parsed_actions, {<<"mode">>, <<"language">>}),
                        ex_in.context, ex_in.chosen_signal_config, ex_in.env)
       IN  /\ ex_out.text_to_paste = without.text_to_paste
           /\ ex_out.paste_successful = without.paste_successful
    /\ \A k \in 1..Len(ex_in.parsed_actions) :
         (/\ ex_in.parsed_actions[k].type \in {<<"mode">>, <<"language">>}
          /\ ~Truthy(ex_in.parsed_actions[k].value))
           => ex_out = execute_actions(
                         SubSeq(ex_in.parsed_actions, 1, k - 1)
                           \o SubSeq(ex_in.parsed_actions, k + 1, Len(ex_in.parsed_actions)),
                         ex_in.context, ex_in.chosen_signal_config, ex_in.env)

\* C18 amended: a mode action with a value sets new_mode, a language action
\* with a value sets new_stt_hint, neither changes text_to_paste or
\* paste_successful, and an action of these types with an empty value leaves
\* text_to_paste, paste_successful, new_mode and new_stt_hint as the list
\* without it gives them; a mode action, with or without a value, makes
\* only_language_action false.
C18_ModeAndLanguageLeaveOutput ==
  (ExecReturned /\ ~ex_out.raised) =>
    /\ ex_out.new_mode = LastValueOf(<<"mode">>)
    /\ ex_out.new_stt_hint = LastValueOf(<<"language">>)
    /\ LET without == execute_actions(
                        WithoutTypes(ex_in.parsed_actions, {<<"mode">>, <<"language">>}),
                        ex_in.context, ex_in.chosen_signal_config, ex_in.env)
       IN  /\ ex_out.text_to_paste = without.text_to_paste
           /\ ex_out.paste_successful = without.paste_successful
    /\ \A k \in 1..Len(ex_in.parsed_actions) :
         (/\ ex_in.parsed_actions[k].type \in {<<"mode">>, <<"language">>}
          /\ ~Truthy(ex_in.parsed_actions[k].value))
           => StateAndOutput(ex_out) =
                StateAndOutput(execute_actions(
                  SubSeq(ex_in.parsed_actions, 1, k - 1)
                    \o SubSeq(ex_in.parsed_actions, k + 1, Len(ex_in.parsed_actions)),
                  ex_in.context, ex_in.chosen_signal_config, ex_in.env))
    /\ (\E k \in 1..Len(ex_in.parsed_actions) :
          ex_in.parsed_actions[k].type = <<"mode">>) => ~ex_out.only_language_action

\* C18 witness: text produced by an action, then a mode and a language
\* action with values: the text is pasted, the mode and the hint are set
C18_Witness ==
  /\ ExecReturned
  /\ Len(ex_in.parsed_actions) = 3
  /\ ex_in.parsed_actions[1].type \in OutputTypes
  /\ ex_in.parsed_actions[2].type = <<"mode">>
  /\ ex_in.parsed_actions[3].type = <<"language">>
  /\ ex_out.paste_successful
  /\ Truthy(ex_out.text_to_paste)
  /\ ex_out.new_mode = <<"llm">>
  /\ ex_out.new_stt_hint = <<"de-DE">>

\* the command's template rendered against the context, None when that fails
Rendered ==
  IF Format(ex_in.chosen_signal_config.template, ex_in.context) = Raise THEN None
  ELSE Format(ex_in.chosen_signal_config.template, ex_in.context)

\* the prompt of an llm action: the rendered template, or the residual text
\* when the command has no template
ResolvedPrompt ==
  IF Truthy(ex_in.chosen_signal_config.template) THEN Rendered
  ELSE ex_in.context.text

\* what the LLM collaborator answers to the last request of the call
LastResponse ==
  IF Len(ex_out.llm_calls) <= Len(ex_in.env.llm)
  THEN ex_in.env.llm[Len(ex_out.llm_calls)] ELSE None

\* C19: an llm action with a resolved prompt calls the LLM collaborator
\* exactly once, with that prompt, and text_to_paste is the response,
\* paste_successful true iff the response is neither None nor empty; without
\* a prompt the action calls no collaborator, leaves text_to_paste and
\* reports paste_successful false.
C19_LlmActionContract ==
  EndsIn(<<"llm">>) =>
    IF Truthy(ResolvedPrompt)
    THEN /\ Len(ex_out.llm_calls) = Len(BeforeLast.llm_calls) + 1
         /\ SubSeq(ex_out.llm_calls, 1, Len(BeforeLast.llm_calls)) = BeforeLast.llm_calls
         /\ ex_out.llm_calls[Len(ex_out.llm_calls)].prompt = ResolvedPrompt
         /\ ex_out.ner_calls = BeforeLast.ner_calls
         /\ ex_out.raised <=> LastResponse = Raise
         /\ ~ex_out.raised =>
              /\ ex_out.text_to_paste = LastResponse
              /\ ex_out.paste_successful
                   <=> (LastResponse # None /\ LastResponse # <<>>)
    ELSE /\ ex_out.llm_calls = BeforeLast.llm_calls
         /\ ex_out.ner_calls = BeforeLast.ner_calls
         /\ ~ex_out.raised
         /\ ex_out.text_to_paste = BeforeLast.text_to_paste
         /\ ex_out.new_mode = BeforeLast.new_mode
         /\ ex_out.new_stt_hint = BeforeLast.new_stt_hint
         /\ ~ex_out.paste_successful

\* C19 witness: an llm action with a prompt rendered from the template and
\* an empty response: one request, the empty text, no paste
C19_Witness ==
  /\ EndsIn(<<"llm">>)
  /\ Truthy(ex_in.chosen_signal_config.template)
  /\ Truthy(ResolvedPrompt)
  /\ Len(ex_out.llm_calls) = 1
  /\ LastResponse = <<>>
  /\ ex_out.text_to_paste = <<>>
  /\ ~ex_out.paste_successful

\* C19 witness of the other branch: a template that does not render, no
\* request although the context has residual text
C19_NoPromptReached ==
  /\ EndsIn(<<"llm">>)
  /\ Truthy(ex_in.chosen_signal_config.template)
  /\ Truthy(ex_in.context.text)
  /\ ~Truthy(ResolvedPrompt)
  /\ ex_out.llm_calls = <<>>

\* C20: process_template with a template that renders gives the rendered
\* text and paste_successful true; when rendering fails or the command has
\* no template, text_to_paste is a non-empty error text and paste_successful
\* is false; execute_actions does not raise in either case.
C20_ProcessTemplateContract ==
  EndsIn(<<"process_template">>) =>
    /\ ~ex_out.raised
    /\ IF /\ Truthy(ex_in.chosen_signal_config.template)
          /\ Format(ex_in.chosen_signal_config.template, ex_in.context) # Raise
       THEN /\ ex_out.text_to_paste =
                 Format(ex_in.chosen_signal_config.template, ex_in.context)
            /\ ex_out.paste_successful
       ELSE /\ Truthy(ex_out.text_to_paste)
            /\ ex_out.text_to_paste \in
                 { <<"Error: Template formatting failed ('other')">>,
                   <<"Error: process_template action missing template.">> }
            /\ ~ex_out.paste_successful

\* C20 witness: a template with a field the context has no key for, after
\* another action
C20_Witness ==
  /\ EndsIn(<<"process_template">>)
  /\ Len(ex_in.parsed_actions) >= 2
  /\ Format(ex_in.chosen_signal_config.template, ex_in.context) = Raise
  /\ ex_out.text_to_paste = <<"Error: Template formatting failed ('other')">>
  /\ ~ex_out.paste_successful
  /\ ~ex_out.raised

\* the failure branches of a ner_extract action that ends the list
NoSpokenTypes ==
  /\ DictGet(LastAction.params, <<"types_source">>, None) = <<"spoken">>
  /\ RStripChars(Strip(ex_in.context.text), {".", ",", "!", "?", ";", ":"}) = <<>>

MissingTypesConfig ==
  /\ DictGet(LastAction.params, <<"types_source">>, None) # <<"spoken">>
  /\ ~DictHas(LastAction.params, <<"types">>)

TemplateError ==
  /\ Truthy(ex_in.chosen_signal_config.template)
  /\ Format(ex_in.chosen_signal_config.template, ex_in.context) = Raise

NoClipboard ==
  /\ ~Truthy(ex_in.chosen_signal_config.template)
  /\ \/ ex_in.env.clipboard = None
     \/ Strip(ex_in.env.clipboard) = <<>>

InvalidThreshold ==
  /\ DictHas(LastAction.params, <<"threshold">>)
  /\ ~IsFloat(DictGet(LastAction.params, <<"threshold">>, None))

CollaboratorException == ex_in.env.ner = "raise"

NerFailure ==
  \/ NoSpokenTypes
  \/ MissingTypesConfig
  \/ TemplateError
  \/ NoClipboard
  \/ InvalidThreshold
  \/ CollaboratorException

\* a formatted error payload: the JSON object with the key error
IsErrorPayload(text) ==
  /\ text # None
  /\ Len(text) >= 3
  /\ text[1] = "{\"error\": \""
  /\ text[Len(text)] = "\"}"

\* C21: a ner_extract action never raises and always yields formatted
\* output: on every failure branch (no spoken types, missing types config,
\* template error, clipboard None or blank, collaborator exception, invalid
\* threshold) text_to_paste is a formatted error payload and
\* paste_successful is false; when the collaborator returns a result,
\* paste_successful is true iff the result has no error key.
C21_NerExtractNeverRaises ==
  EndsIn(<<"ner_extract">>) =>
    /\ ~ex_out.raised
    /\ Truthy(ex_out.text_to_paste)
    /\ IF NerFailure
       THEN /\ IsErrorPayload(ex_out.text_to_paste)
            /\ ~ex_out.paste_successful
       ELSE /\ Len(ex_out.ner_calls) = Len(BeforeLast.ner_calls) + 1
            /\ ex_out.paste_successful <=> ex_in.env.ner # "error"
            /\ ex_out.text_to_paste =
                 format_ner_json_custom([kind |-> ex_in.env.ner,
                                         error |-> <<"NER service">>])

\* C21 witness: the NER service raises, after an earlier action pasted
C21_Witness ==
  /\ EndsIn(<<"ner_extract">>)
  /\ BeforeLast.paste_successful
  /\ CollaboratorException
  /\ ~NoSpokenTypes /\ ~MissingTypesConfig /\ ~TemplateError
  /\ ~NoClipboard /\ ~InvalidThreshold
  /\ Len(ex_out.ner_calls) = Len(BeforeLast.ner_calls) + 1
  /\ ex_out.text_to_paste = <<"{\"error\": \"", "NER processing error.", "\"}">>
  /\ ~ex_out.paste_successful
  /\ ~ex_out.raised

\* each failure branch of ner_extract is taken, alone
C21_InvalidThresholdReached ==
  /\ EndsIn(<<"ner_extract">>)
  /\ InvalidThreshold
  /\ ~NoSpokenTypes /\ ~MissingTypesConfig /\ ~TemplateError
  /\ ~NoClipboard /\ ~CollaboratorException
  /\ ex_out.ner_calls = <<>>

\* the actions that set or clear the text to paste
OutputAffectingActions ==
  { k \in 1..Len(ex_in.parsed_actions) :
      ex_in.parsed_actions[k].type \in OutputTypes \cup { <<"speak">> } }

\* the last of them is a speak action
SpeakIsLast ==
  /\ OutputAffectingActions # {}
  /\ \E k \in OutputAffectingActions :
       /\ \A l \in OutputAffectingActions : l <= k
       /\ ex_in.parsed_actions[k].type = <<"speak">>

\* C22: after a speak action executes, text_to_paste is None and
\* paste_successful is false; a list whose last output-affecting action is
\* speak returns no text to paste, whatever an earlier action produced.
C22_SpeakNeverPastes ==
  ExecReturned =>
    /\ \A k \in 1..Len(ex_in.parsed_actions) :
         (ex_in.parsed_actions[k].type = <<"speak">> /\ ~ResultOfFirst(k).raised)
           => /\ ResultOfFirst(k).text_to_paste = None
              /\ ~ResultOfFirst(k).paste_successful
    /\ (SpeakIsLast /\ ~ex_out.raised)
         => /\ ex_out.text_to_paste = None
            /\ ~ex_out.paste_successful

\* C22 witness: an action produced text to paste, a speak action and a mode
\* action follow, and the call returns none
C22_Witness ==
  /\ ExecReturned
  /\ Len(ex_in.parsed_actions) = 3
  /\ ex_in.parsed_actions[2].type = <<"speak">>
  /\ ex_in.parsed_actions[3].type = <<"mode">>
  /\ ResultOfFirst(1).paste_successful
  /\ Truthy(ResultOfFirst(1).text_to_paste)
  /\ ex_out.text_to_paste = None
  /\ ~ex_out.paste_successful
  /\ ex_out.new_mode = <<"llm">>

\* a language action of the list set a hint
LanguageSetHint ==
  \E k \in 1..Len(ex_in.parsed_actions) :
    /\ ex_in.parsed_actions[k].type = <<"language">>
    /\ Truthy(ex_in.parsed_actions[k].value)

\* an action of another type, known or not, is in the list
OtherTypePresent ==
  \E k \in 1..Len(ex_in.parsed_actions) :
    /\ Truthy(ex_in.parsed_actions[k].type)
    /\ ex_in.parsed_actions[k].type # <<"language">>

\* C23: only_language_action is true iff a language action set a hint and
\* no action of any other type, mode and unknown types included, is in the
\* list; it is false for the empty list and for a language action with an
\* empty value.
C23_OnlyLanguageAction ==
  (ExecReturned /\ ~ex_out.raised) =>
    /\ ex_out.only_language_action <=> (LanguageSetHint /\ ~OtherTypePresent)
    /\ ex_in.parsed_actions = <<>> => ~ex_out.only_language_action
    /\ (\A k \in 1..Len(ex_in.parsed_actions) :
          /\ ex_in.parsed_actions[k].type = <<"language">>
          /\ ~Truthy(ex_in.parsed_actions[k].value))
         => ~ex_out.only_language_action

\* C23 witness: a language action with a value and one without, the flag
\* is set
C23_Witness ==
  /\ ExecReturned
  /\ Len(ex_in.parsed_actions) = 2
  /\ ex_in.parsed_actions[1] = ParsedAction(<<"language">>, <<"de-DE">>, NoParams)
  /\ ex_in.parsed_actions[2] = ParsedAction(<<"language">>, None, NoParams)
  /\ ex_out.only_language_action
  /\ ex_out.new_stt_hint = <<"de-DE">>

\* an action of an unknown type after the language action clears the flag
C23_UnknownTypeReached ==
  /\ ExecReturned
  /\ ex_in.parsed_actions = << ParsedAction(<<"language">>, <<"de-DE">>, NoParams),
                               ParsedAction(<<"shell_command">>, None, NoParams) >>
  /\ ~ex_out.only_language_action
  /\ ex_out.new_stt_hint = <<"de-DE">>

\* the turn transcribed a text that is not filtered and that no command of
\* the table matches
NoCommandMatched ==
  /\ TurnReturned
  /\ ap_in.frames
  /\ ap_in.stt1 # Raise
  /\ ~EmptyOrFiltered
  /\ find_matching_signal(FirstTranscript, ap_in.signal_configs) = NoSignal

\* C25: when no command matches, mode normal pastes the cleaned transcript
\* verbatim with paste_successful true, mode llm sends the cleaned
\* transcript to the LLM as the bare prompt and text_to_paste is its
\* response; in both modes the returned mode and hint are those passed in.
C25_DefaultHandling ==
  NoCommandMatched =>
    /\ ap_out.chosen = 0
    /\ ap_out.parsed_actions = <<>>
    /\ ap_in.current_processing_mode = <<"normal">> =>
         /\ ap_out.result =
              ProcessAudioResult(FirstTranscript, <<"normal">>,
                                 ap_in.current_stt_hint, TRUE)
         /\ ap_out.llm_calls = <<>>
    /\ ap_in.current_processing_mode = <<"llm">> =>
         /\ ap_out.llm_calls = << [prompt |-> FirstTranscript, model_override |-> None] >>
         /\ ap_in.env.llm[1] # Raise =>
              ap_out.result.text_to_paste = ap_in.env.llm[1]
         /\ ap_out.result.new_processing_mode = <<"llm">>
         /\ ap_out.result.new_stt_hint = ap_in.current_stt_hint

\* C25 witness: mode llm, a transcript in capitals that no command
\* matches, and the response is pasted
C25_Witness ==
  /\ NoCommandMatched
  /\ ap_in.current_processing_mode = <<"llm">>
  /\ ap_in.current_stt_hint = <<"en-US">>
  /\ FirstTranscript = <<"S", ",", " ", "x">>
  /\ ap_out.llm_calls = << [prompt |-> FirstTranscript, model_override |-> None] >>
  /\ ap_out.result = ProcessAudioResult(<<"R">>, <<"llm">>, <<"en-US">>, TRUE)

\* the other mode: the transcript is pasted as it was cleaned
C25_NormalReached ==
  /\ NoCommandMatched
  /\ ap_in.current_processing_mode = <<"normal">>
  /\ FirstTranscript = <<"x", " ", "s", "s">>
  /\ ap_out.result.text_to_paste = <<"x", " ", "s", "s">>
  /\ ap_out.result.paste_successful

\* the modes process_audio knows
KnownModes == { <<"normal">>, <<"llm">>, <<"de-CH">> }

\* the text the turn has pasted: that of a result with paste_successful
PastedText(result) ==
  IF result.paste_successful THEN result.text_to_paste ELSE None

UnknownModeError(mode) == <<"Error: Unknown mode '">> \o mode \o <<"'">>

\* C26 as stated: when no command matches and current_mode is none of the
\* known modes, the turn does not raise and the error string naming the
\* mode is the pasted text of the turn.
C26_UnknownModePasted ==
  (NoCommandMatched /\ ap_in.current_processing_mode \notin KnownModes) =>
    /\ ap_out.path # "exception"
    /\ PastedText(ap_out.result) = UnknownModeError(ap_in.current_processing_mode)

\* the error string is in the result of the turn, with paste_successful
\* false, and the mode and the hint stay
C26_UnknownModeReported ==
  (NoCommandMatched /\ ap_in.current_processing_mode \notin KnownModes) =>
    /\ ap_out.path # "exception"
    /\ ap_out.llm_calls = <<>>
    /\ ap_out.result =
         ProcessAudioResult(UnknownModeError(ap_in.current_processing_mode),
                            ap_in.current_processing_mode,
                            ap_in.current_stt_hint, FALSE)

\* the turn chose a command and its actions returned
CommandExecuted ==
  /\ TurnReturned
  /\ ap_out.chosen # 0
  /\ ~ap_out.action_results.raised

\* the actions of the command changed the language hint
HintChanged ==
  /\ Truthy(ap_out.action_results.new_stt_hint)
  /\ ap_out.action_results.new_stt_hint # ap_in.current_stt_hint

\* transcription was run a second time, with the new hint
Retranscribed ==
  /\ Len(ap_out.stt_calls) = 2
  /\ ap_out.stt_calls[2] = ap_out.action_results.new_stt_hint

\* C27 as stated: transcription is re-run with the new hint when a matched
\* command changed the language hint and was not only_language_action, and
\* it is not re-run when the command's only effect was to set the hint.
C27_RerunGovernedByFlag ==
  CommandExecuted =>
    /\ (HintChanged /\ ~ap_out.action_results.only_language_action) => Retranscribed
    /\ ap_out.action_results.only_language_action => Len(ap_out.stt_calls) = 1

\* transcription is re-run exactly when the command changed the hint,
\* whatever only_language_action is
C27_RerunWhenHintChanged ==
  CommandExecuted =>
    IF HintChanged THEN Retranscribed ELSE Len(ap_out.stt_calls) = 1

\* the phrases a command is spoken with, in lower case
PhrasesOf(config) ==
  { Lower(PhrasesToCheck(config)[i]) : i \in 1..Len(PhrasesToCheck(config)) }

\* the whole transcript is the signal phrase of a command whose actions are
\* language:<L> and mode:normal
LanguageCommandTurn ==
  /\ CommandExecuted
  /\ Lower(FirstTranscript) \in PhrasesOf(TurnConfig)
  /\ Len(ap_out.parsed_actions) = 2
  /\ ap_out.parsed_actions[1].type = <<"language">>
  /\ Truthy(ap_out.parsed_actions[1].value)
  /\ ap_out.parsed_actions[2] = ParsedAction(<<"mode">>, <<"normal">>, NoParams)

\* the language the following turn transcribes in, given the hint this turn
\* returned
NextTurnLanguage ==
  HintForThisRun([ap_in EXCEPT !.current_stt_hint = ap_out.result.new_stt_hint])

\* C28 as stated: in a turn whose whole transcript is the signal phrase of
\* a command with the actions language:<L> and mode:normal nothing is
\* pasted (text_to_paste None, paste_successful false), the returned hint is
\* L and the next turn transcribes with L.
C28_LanguageCommandNoPaste ==
  LanguageCommandTurn =>
    /\ ap_out.result.text_to_paste = None
    /\ ~ap_out.result.paste_successful
    /\ ap_out.result.new_stt_hint = ap_out.parsed_actions[1].value
    /\ NextTurnLanguage = ap_out.parsed_actions[1].value

\* the hint is L and the next turn transcribes with L; nothing is pasted
\* unless the transcription re-run with L yields text
C28_LanguageCommandSetsHint ==
  LanguageCommandTurn =>
    /\ ap_out.result.new_stt_hint = ap_out.parsed_actions[1].value
    /\ ap_out.result.new_processing_mode = <<"normal">>
    /\ NextTurnLanguage = ap_out.parsed_actions[1].value
    /\ ap_out.llm_calls = <<>>
    /\ (\/ Len(ap_out.stt_calls) = 1
        \/ ap_in.stt2 = Raise
        \/ Strip(JoinStripped(ap_in.stt2, 1)) = <<>>)
         => /\ ap_out.result.text_to_paste = None
            /\ ~ap_out.result.paste_successful

\* C29 as stated: after a turn processed while current_mode is the
\* regional-translation mode de-CH, the mode for the following turn is
\* normal, whether or not the turn pasted anything.
C29_TranslationModeResets ==
  (TurnReturned /\ ap_in.frames /\ ap_in.current_processing_mode = <<"de-CH">>)
    => ap_out.result.new_processing_mode = <<"normal">>

\* a turn in the mode de-CH returns de-CH unless a mode action of a matched
\* command set another mode
C29_TranslationModeStays ==
  (/\ TurnReturned
   /\ ap_in.frames
   /\ ap_in.current_processing_mode = <<"de-CH">>
   /\ ap_out.action_results.new_mode = None)
    => ap_out.result.new_processing_mode = <<"de-CH">>

\* a collaborator raised during the turn
TurnCollaboratorRaised ==
  /\ TurnReturned
  /\ \/ ap_in.stt1 = Raise
     \/ Len(ap_out.stt_calls) = 2 /\ ap_in.stt2 = Raise
     \/ \E n \in 1..Len(ap_out.llm_calls) : ap_in.env.llm[n] = Raise
     \/ ap_out.action_results.ner_calls # <<>> /\ ap_in.env.ner = "raise"

\* the turn half of C30: an exception of the first transcription or of an
\* LLM request ends in a result with nothing to paste, and a turn that left
\* through its exception handler returns the mode and the hint passed in
C30_TurnReturnsResult ==
  TurnCollaboratorRaised =>
    /\ ap_in.stt1 = Raise => ap_out.path = "exception"
    /\ (ap_out.llm_calls # <<>> /\ ap_in.env.llm[Len(ap_out.llm_calls)] = Raise)
         => ~ap_out.result.paste_successful
    /\ ap_out.path = "exception" =>
         ap_out.result = ProcessAudioResult(None, ap_in.current_processing_mode,
                                            ap_in.current_stt_hint, FALSE)

\* a step of the pipeline raised: a transcription or an LLM request
StepRaised ==
  /\ TurnReturned
  /\ \/ ap_in.stt1 = Raise
     \/ Len(ap_out.stt_calls) = 2 /\ ap_in.stt2 = Raise
     \/ \E n \in 1..Len(ap_out.llm_calls) : ap_in.env.llm[n] = Raise

\* C36 as stated: when a step of process_audio raises, also after a mode or
\* language action of a matched command has executed, the returned mode and
\* hint are those passed in, text_to_paste is None and paste_successful is
\* false.
C36_FailedTurnKeepsState ==
  StepRaised =>
    ap_out.result = ProcessAudioResult(None, ap_in.current_processing_mode,
                                       ap_in.current_stt_hint, FALSE)

\* an exception during the re-run with the new hint is caught there: nothing
\* is pasted, and the mode and the hint the command set are returned; every
\* other exception returns the mode and the hint passed in
C36_FailedTurnPastesNothing ==
  StepRaised =>
    /\ ap_out.result.text_to_paste = None
    /\ ~ap_out.result.paste_successful
    /\ IF Len(ap_out.stt_calls) = 2
       THEN /\ ap_out.result.new_processing_mode =
                 NewMode(ap_out.action_results, ap_in.current_processing_mode)
            /\ ap_out.result.new_stt_hint = ap_out.action_results.new_stt_hint
       ELSE /\ ap_out.result.new_processing_mode = ap_in.current_processing_mode
            /\ ap_out.result.new_stt_hint = ap_in.current_stt_hint

\* C24: when the cleaned transcript is empty or only a filtered courtesy
\* phrase, the turn matches no command, executes no action, asks nothing of
\* the LLM and pastes nothing (text_to_paste None, paste_successful false),
\* and returns the mode and the hint it was given.
C24_EmptyTranscriptEndsTurn ==
  EmptyOrFiltered =>
    /\ ap_out.chosen = 0
    /\ ap_out.parsed_actions = <<>>
    /\ ap_out.action_results = NoActionResults
    /\ ap_out.llm_calls = <<>>
    /\ Len(ap_out.stt_calls) = 1
    /\ ap_out.result =
         ProcessAudioResult(None, ap_in.current_processing_mode,
                            ap_in.current_stt_hint, FALSE)

\* C24 witness: the transcript is the courtesy phrase that a command of the
\* table is spoken with, in a mode that would send it to the LLM
C24_Witness ==
  /\ EmptyOrFiltered
  /\ FirstTranscript = <<"Y", "o", "u", "!">>
  /\ ap_in.signal_configs = OtherCommands
  /\ find_matching_signal(FirstTranscript, ap_in.signal_configs) # NoSignal
  /\ ap_in.current_processing_mode = <<"llm">>
  /\ ap_in.current_stt_hint = <<"de-DE">>
  /\ ap_out.result.text_to_paste = None
  /\ ~ap_out.result.paste_successful
  /\ ap_out.result.new_stt_hint = <<"de-DE">>

\* a collaborator raised during the call of execute_actions
CollaboratorRaised ==
  \/ \E n \in 1..Len(ex_out.llm_calls) :
       n <= Len(ex_in.env.llm) /\ ex_in.env.llm[n] = Raise
  \/ ex_out.ner_calls # <<>> /\ ex_in.env.ner = "raise"

\* C30 as stated, for execute_actions: whichever collaborator raises, the
\* call returns a result, and no exception reaches its caller.
C30_NoExceptionEscapes ==
  ExecReturned => ~ex_out.raised

\* an exception of the NER service stays in execute_actions: the action
\* reports it and the call returns
C30_NerExceptionContained ==
  (/\ ExecReturned
   /\ ex_in.env.ner = "raise"
   /\ \A n \in 1..Len(ex_out.llm_calls) :
        n <= Len(ex_in.env.llm) => ex_in.env.llm[n] # Raise)
    => ~ex_out.raised

\* C35: whenever execute_actions returns paste_successful true,
\* text_to_paste is a string, never None; this holds after every prefix of
\* the action list.
C35_PasteImpliesText ==
  ExecReturned =>
    \A k \in 0..Len(ex_in.parsed_actions) :
      (~ResultOfFirst(k).raised /\ ResultOfFirst(k).paste_successful)
        => ResultOfFirst(k).text_to_paste # None

\* C35 witness: the flag is set after the first action, withdrawn with the
\* text after the second, and set again with a text after the third
C35_Witness ==
  /\ ExecReturned
  /\ Len(ex_in.parsed_actions) = 3
  /\ ResultOfFirst(1).paste_successful
  /\ Truthy(ResultOfFirst(1).text_to_paste)
  /\ ~ResultOfFirst(2).paste_successful
  /\ ResultOfFirst(2).text_to_paste = None
  /\ ex_out.paste_successful
  /\ Truthy(ex_out.text_to_paste)

-----------------------------------------------------------------------------
(* orchestrator.Orchestrator: the hotkey callbacks, which the listener thread
   runs one at a time, the recording thread, and the threads that run
   _process_audio, a step of a thread one access to a field of the object. *)

\* _process_audio threads the model lets the user start
MaxTurns == 3

\* MIN_PTT_DURATION = 1.2, in tenths of a second
MIN_PTT_DURATION == 12

\* what a recording thread leaves in its result: whether frames were
\* captured, and the time from press to stop
RecordingResults ==
  [frames : BOOLEAN, duration : {MIN_PTT_DURATION - 1, MIN_PTT_DURATION}]

\* getattr(self.recording_thread, 'result', ([], 0)) without a result
NoRecording == [frames |-> FALSE, duration |-> 0]

NoThread == [state |-> "none", result |-> NoRecording]

\* signal_config.SIGNAL_WORD_CONFIG in its order, a phrase shortened to its
\* first letter
SIGNAL_WORD_CONFIG ==
  << [signal_phrase |-> <<"w">>, match_position |-> "exact",
      action |-> "set_mode", value |-> <<"swiss_german">>],
     [signal_phrase |-> <<"g">>, match_position |-> "exact",
      action |-> "set_next_stt", value |-> <<"de">>],
     [signal_phrase |-> <<"e">>, match_position |-> "exact",
      action |-> "set_next_stt", value |-> <<"en">>],
     [signal_phrase |-> <<"f">>, match_position |-> "start",
      action |-> "transform", value |-> None] >>

\* the characters of lstrip(',.?!; ') and rstrip(',.?!; ')
LegacyStripSet == {",", ".", "?", "!", ";", " "}

\* lines 398-425: one entry of the table against the transcript
LegacyMatchEntry(text, final_text_check, config) ==
  LET signal_phrase == config.signal_phrase
      signal_len    == Len(signal_phrase)
  IN  CASE config.match_position = "start" ->
             [match_found |-> StartsWith(Lower(text), signal_phrase),
              text_for_handler |->
                Strip(LStripChars(SliceFrom(text, signal_len), LegacyStripSet))]
        [] config.match_position = "end" ->
             [match_found |-> EndsWith(Lower(text), signal_phrase),
              text_for_handler |->
                Strip(RStripChars(SliceButLast(text, signal_len), LegacyStripSet))]
        [] config.match_position = "exact" ->
             [match_found |-> final_text_check = signal_phrase,
              text_for_handler |-> text]
        [] OTHER ->
             [match_found |-> Contains(Lower(text), signal_phrase),
              text_for_handler |-> text]

RECURSIVE LegacyChoose(_, _, _)
\* lines 385-431: the first entry that matches, 0 for none
LegacyChoose(text, final_text_check, i) ==
  IF i > Len(SIGNAL_WORD_CONFIG) THEN [config |-> 0, text_for_handler |-> None]
  ELSE IF SIGNAL_WORD_CONFIG[i].signal_phrase = <<>>
  THEN LegacyChoose(text, final_text_check, i + 1)
  ELSE LET m == LegacyMatchEntry(text, final_text_check, SIGNAL_WORD_CONFIG[i])
       IN  IF m.match_found
           THEN [config |-> i, text_for_handler |-> m.text_for_handler]
           ELSE LegacyChoose(text, final_text_check, i + 1)

\* lines 339-519: what the transcription of a run leads to: the text to paste
\* and the field the run writes (set for which field, value for its value)
LegacyOutcome(segments) ==
  LET final_full_sanitized_text == Strip(AccumulateSegments(segments, 1, <<>>))
      final_text_check ==
        Strip(RemovePunctuation(Lower(final_full_sanitized_text)))
      chosen == LegacyChoose(final_full_sanitized_text, final_text_check, 1)
      config == SIGNAL_WORD_CONFIG[chosen.config]
      Nothing == [text_to_paste |-> None, set |-> "nothing", value |-> None]
  IN  IF segments = Raise THEN Nothing
      ELSE IF final_text_check = <<"y", "o", "u">> THEN Nothing
      ELSE IF final_full_sanitized_text = <<>> THEN Nothing
      ELSE IF chosen.config = 0
      THEN [text_to_paste |-> final_full_sanitized_text, set |-> "nothing",
            value |-> None]
      ELSE IF config.action = "set_mode"
      THEN [text_to_paste |-> None, set |-> "translation_mode",
            value |-> config.value]
      ELSE IF config.action = "set_next_stt"
      THEN [text_to_paste |-> None, set |-> "next_stt_language_hint",
            value |-> config.value]
      ELSE [text_to_paste |-> <<"handler result">>, set |-> "nothing",
            value |-> None]

\* what the speech-to-text engine makes of a recording
LegacyTranscriptions ==
  { Raise,
    <<>>,
    << <<"Y", "o", "u", ".">> >>,
    << <<"x">> >>,
    << <<"G", ".">> >>,
    << <<"e">> >>,
    << <<"w">> >>,
    << <<"f", " ", "x">> >> }

\* self.config.get('language', 'en').split('-')[0]
default_stt_lang == <<"en">>

\* a thread: where it is in _process_audio, the recording it was started
\* with, its locals, whether its hint came from next_stt_language_hint, and
\* whether Esc was pressed in its recording
NotStarted ==
  [pc |-> "unstarted", frames |-> NoRecording, hint_for_this_run |-> None,
   hint_pending |-> FALSE, text_to_paste |-> None, esc_in_hold |-> FALSE]

Running(t) == threads[t].pc \notin {"unstarted", "done"}

Started == {t \in 1..MaxTurns : threads[t].pc # "unstarted"}

InitOrchestrator ==
  /\ LaterUnused
  /\ SignalUnused
  /\ TurnUnused
  /\ ParseUnused
  /\ ExecuteUnused
  /\ user = [cmd_down |-> FALSE, esc_in_hold |-> FALSE]
  /\ hotkey_suppressed = FALSE
  /\ cmd_held = FALSE
  /\ cancel_requested = FALSE
  /\ stop_recording_event = FALSE
  /\ recording_thread = NoThread
  /\ next_stt_language_hint = None
  /\ translation_mode = None
  /\ last_paste_successful = FALSE
  /\ threads = [t \in 1..MaxTurns |-> NotStarted]
  /\ hint_uses = 0
  /\ overlapped = FALSE
  /\ joined = NoRecording

Keys == {"cmd", "esc"}

\* _on_press, called for a key the user presses: the record hotkey when it
\* is up, Esc at any time
OnPress(key) ==
  /\ key = "cmd" => ~user.cmd_down /\ Started # 1..MaxTurns
  /\ user' = IF key = "cmd" THEN [cmd_down |-> TRUE, esc_in_hold |-> FALSE]
             ELSE [user EXCEPT !.esc_in_hold = @ \/ user.cmd_down]
  /\ IF hotkey_suppressed
     THEN UNCHANGED <<cmd_held, cancel_requested, stop_recording_event,
                      recording_thread>>
     ELSE IF key = "cmd" /\ ~cmd_held
     THEN /\ cmd_held' = TRUE
          /\ cancel_requested' = FALSE
          /\ stop_recording_event' = FALSE
          /\ recording_thread' = [state |-> "running", result |-> NoRecording]
     ELSE IF key = "esc" /\ cmd_held
     THEN /\ cancel_requested' = TRUE
          /\ stop_recording_event' = TRUE
          /\ UNCHANGED <<cmd_held, recording_thread>>
     ELSE UNCHANGED <<cmd_held, cancel_requested, stop_recording_event,
                      recording_thread>>
  /\ UNCHANGED <<hotkey_suppressed, next_stt_language_hint, translation_mode,
                 last_paste_successful, threads, hint_uses, overlapped, joined,
                 sig_vars, ap_vars, parse_vars, exec_vars,
                 later_vars>>

\* _hotkey_recording_loop leaves its loop, the event set or the stream at its
\* end, and stores its result on the thread
RecordingLoopExits ==
  /\ recording_thread.state = "running"
  /\ \E r \in RecordingResults :
       recording_thread' = [state |-> "finished", result |-> r]
  /\ UNCHANGED <<user, hotkey_suppressed, cmd_held, cancel_requested,
                 stop_recording_event, next_stt_language_hint, translation_mode,
                 last_paste_successful, threads, hint_uses, overlapped, joined,
                 sig_vars, ap_vars, parse_vars, exec_vars,
                 later_vars>>

\* lines 209-220: join(timeout=2.0) and the result read from the thread, none
\* when the thread is still alive after the timeout
JoinResults ==
  IF recording_thread.state = "finished" THEN {recording_thread.result}
  ELSE IF recording_thread.state = "running"
  THEN RecordingResults \cup {NoRecording}
  ELSE {NoRecording}

\* a variant of DurationOk that looks at the frames only
DurationOkFramesOnly(r) == r.frames

\* line 234: frames and duration >= self.MIN_PTT_DURATION
DurationOk(r) == r.frames /\ r.duration >= MIN_PTT_DURATION

\* _on_release, called when the user lets the record hotkey go
OnRelease ==
  /\ user.cmd_down
  /\ user' = [cmd_down |-> FALSE, esc_in_hold |-> FALSE]
  /\ IF hotkey_suppressed \/ ~cmd_held
     THEN UNCHANGED <<cmd_held, cancel_requested, stop_recording_event,
                      recording_thread, threads, overlapped, joined>>
     ELSE /\ cmd_held' = FALSE
          /\ stop_recording_event' = TRUE
          /\ recording_thread' = NoThread
          /\ \E r \in JoinResults :
               /\ joined' = r
               /\ IF cancel_requested
                  THEN /\ cancel_requested' = FALSE
                       /\ UNCHANGED <<threads, overlapped>>
                  ELSE IF DurationOk(r)
                  THEN LET t == CHOOSE u \in 1..MaxTurns :
                                  /\ u \notin Started
                                  /\ \A v \in 1..(u - 1) : v \in Started
                       IN  /\ threads' = [threads EXCEPT ![t] =
                                [NotStarted EXCEPT !.pc = "reset_flag",
                                                   !.frames = r,
                                                   !.esc_in_hold = user.esc_in_hold]]
                           /\ overlapped' = (overlapped \/ \E u \in 1..MaxTurns : Running(u))
                           /\ UNCHANGED cancel_requested
                  ELSE UNCHANGED <<cancel_requested, threads, overlapped>>
  /\ UNCHANGED <<hotkey_suppressed, next_stt_language_hint, translation_mode,
                 last_paste_successful, hint_uses, sig_vars, ap_vars, parse_vars, exec_vars,
                 later_vars>>

\* the fields a step of a _process_audio thread leaves alone
ListenerUnchanged ==
  UNCHANGED <<user, cmd_held, cancel_requested, stop_recording_event,
              recording_thread, overlapped, joined, sig_vars, ap_vars,
              parse_vars, exec_vars, later_vars>>

\* line 316
ResetPasteFlag(t) ==
  /\ threads[t].pc = "reset_flag"
  /\ last_paste_successful' = FALSE
  /\ threads' = [threads EXCEPT ![t].pc = "read_hint"]
  /\ ListenerUnchanged
  /\ UNCHANGED <<hotkey_suppressed, next_stt_language_hint, translation_mode,
                 hint_uses>>

\* lines 328-334, the read of the hint
ReadHint(t) ==
  /\ threads[t].pc = "read_hint"
  /\ threads' = [threads EXCEPT ![t] =
       IF Truthy(next_stt_language_hint)
       THEN [@ EXCEPT !.pc = "reset_hint", !.hint_pending = TRUE,
                      !.hint_for_this_run = next_stt_language_hint]
       ELSE [@ EXCEPT !.pc = "transcribe",
                      !.hint_for_this_run = default_stt_lang]]
  /\ ListenerUnchanged
  /\ UNCHANGED <<hotkey_suppressed, next_stt_language_hint, translation_mode,
                 last_paste_successful, hint_uses>>

\* line 332
ResetHint(t) ==
  /\ threads[t].pc = "reset_hint"
  /\ next_stt_language_hint' = None
  /\ threads' = [threads EXCEPT ![t].pc = "transcribe"]
  /\ ListenerUnchanged
  /\ UNCHANGED <<hotkey_suppressed, translation_mode, last_paste_successful,
                 hint_uses>>

\* lines 339-530: the transcription in hint_for_this_run, the field the
\* command writes, and the text to paste
TranscribeAndAct(t) ==
  /\ threads[t].pc = "transcribe"
  /\ \E segments \in LegacyTranscriptions :
       LET o == LegacyOutcome(segments)
       IN  /\ translation_mode' =
                IF o.set = "translation_mode" THEN o.value ELSE translation_mode
           /\ next_stt_language_hint' =
                IF o.set = "next_stt_language_hint" THEN o.value
                ELSE next_stt_language_hint
           /\ hint_uses' =
                IF o.set = "next_stt_language_hint" THEN 0
                ELSE IF threads[t].hint_pending THEN hint_uses + 1
                ELSE hint_uses
           /\ threads' = [threads EXCEPT ![t] =
                [@ EXCEPT !.text_to_paste = o.text_to_paste,
                          !.pc = IF Truthy(o.text_to_paste) THEN "paste"
                                 ELSE "done"]]
  /\ ListenerUnchanged
  /\ UNCHANGED <<hotkey_suppressed, last_paste_successful>>

\* lines 604 and 570
SuppressHotkey(t) ==
  /\ threads[t].pc = "paste"
  /\ last_paste_successful' = FALSE
  /\ hotkey_suppressed' = TRUE
  /\ threads' = [threads EXCEPT ![t].pc = "keystroke"]
  /\ ListenerUnchanged
  /\ UNCHANGED <<next_stt_language_hint, translation_mode, hint_uses>>

\* lines 574-582: Cmd+V, or an exception in its place
PasteKeystroke(t) ==
  /\ threads[t].pc = "keystroke"
  /\ last_paste_successful' \in BOOLEAN
  /\ threads' = [threads EXCEPT ![t].pc = "unsuppress"]
  /\ ListenerUnchanged
  /\ UNCHANGED <<hotkey_suppressed, next_stt_language_hint, translation_mode,
                 hint_uses>>

\* lines 585-586
UnsuppressHotkey(t) ==
  /\ threads[t].pc = "unsuppress"
  /\ hotkey_suppressed' = FALSE
  /\ threads' = [threads EXCEPT ![t].pc = "done"]
  /\ ListenerUnchanged
  /\ UNCHANGED <<next_stt_language_hint, translation_mode,
                 last_paste_successful, hint_uses>>

ProcessAudioThread(t) ==
  \/ ResetPasteFlag(t)
  \/ ReadHint(t)
  \/ ResetHint(t)
  \/ TranscribeAndAct(t)
  \/ SuppressHotkey(t)
  \/ PasteKeystroke(t)
  \/ UnsuppressHotkey(t)

NextOrchestrator ==
  \/ \E key \in Keys : OnPress(key)
  \/ OnRelease
  \/ RecordingLoopExits
  \/ \E t \in 1..MaxTurns : ProcessAudioThread(t)

SpecOrchestrator == InitOrchestrator /\ [][NextOrchestrator]_vars

-----------------------------------------------------------------------------
(* Claims about the turns of the Orchestrator *)

\* C3: once a turn sets the pending language hint, exactly one subsequent
\* transcription uses it, and after that transcription the hint is None
\* again: no second run transcribes with a hint that was set once.
C3_HintUsedByOneTurn ==
  /\ hint_uses <= 1
  /\ hint_uses = 1 => next_stt_language_hint = None

\* the hint is used once and is None afterwards as long as no _process_audio
\* was started while another was running
C3_HintUsedByOneTurnWithoutOverlap ==
  ~overlapped => C3_HintUsedByOneTurn

\* C5: at most one turn is active at a time: a second _process_audio run is
\* never started while a previous one is still running.
C5_AtMostOneTurnActive ==
  Cardinality({t \in 1..MaxTurns : Running(t)}) <= 1

\* C6: a cancelled turn is never dispatched: no _process_audio runs for a
\* recording in which Esc was pressed while the record hotkey was held.
C6_CancelledTurnNeverDispatched ==
  \A t \in 1..MaxTurns : ~threads[t].esc_in_hold

\* a step in which the user lets the record hotkey go
ReleaseStep == user.cmd_down /\ ~user'.cmd_down

\* what the threads of _process_audio read and write
SessionState ==
  <<threads, next_stt_language_hint, translation_mode, last_paste_successful,
    hint_uses>>

\* a recording that captured frames and lasted at least MIN_PTT_DURATION
RealHold(r) == r.frames /\ ~(r.duration < MIN_PTT_DURATION)

\* C32: on hotkey release, a recording whose duration is below
\* MIN_PTT_DURATION, or that captured no frames, never starts _process_audio:
\* every _process_audio thread was started with frames of a recording that
\* lasted at least MIN_PTT_DURATION, and a release that finds a shorter or
\* an empty recording starts no thread and changes no session state.
C32_SubThresholdDiscarded ==
  /\ [](\A t \in Started : RealHold(threads[t].frames))
  /\ [][(ReleaseStep /\ ~RealHold(joined')) => UNCHANGED SessionState]_vars

\* a release found frames of a recording shorter than MIN_PTT_DURATION, and
\* no thread was started
C32_Witness ==
  /\ joined.frames
  /\ joined.duration < MIN_PTT_DURATION
  /\ ~cmd_held
  /\ ~user.cmd_down
  /\ Started = {}

\* a release found a recording without frames
C32_NoFramesReached ==
  /\ ~joined.frames
  /\ joined.duration >= MIN_PTT_DURATION
  /\ Started = {}

\* the threads between line 570, which sets hotkey_suppressed, and line 586,
\* which clears it
InKeystroke == {t \in 1..MaxTurns : threads[t].pc \in {"keystroke", "unsuppress"}}

\* C37: hotkey callbacks are suppressed for the duration of a simulated
\* keystroke, and after every simulated keystroke attempt suppression is off
\* again: hotkey_suppressed is set exactly while a thread is between the
\* start and the end of its keystroke.
C37_SuppressedDuringKeystroke ==
  hotkey_suppressed <=> InKeystroke # {}

\* without a second _process_audio running beside the first, suppression is
\* on exactly while the keystroke is simulated
C37_SuppressedDuringKeystrokeWithoutOverlap ==
  ~overlapped => C37_SuppressedDuringKeystroke

\* a key event that arrives while hotkey_suppressed is set changes no
\* recording or key state
C37_SuppressedEventsChangeNothing ==
  [][(hotkey_suppressed /\ user' # user) =>
       UNCHANGED <<cmd_held, cancel_requested, stop_recording_event,
                   recording_thread, threads, joined>>]_vars

\* the thread that ends its keystroke clears hotkey_suppressed, whether the
\* keystroke succeeded or raised
C37_SuppressionReleasedAfterAttempt ==
  [][\A t \in 1..MaxTurns :
       (threads[t].pc = "unsuppress" /\ threads'[t].pc = "done")
         => ~hotkey_suppressed']_vars

-----------------------------------------------------------------------------
(* audio_processing: AudioTranscriber.transcribe_parallel, its worker
   threads, and the process_audio of audio_processing.processor that calls
   it.  A step of the calling thread is one wait for a future; a worker
   takes the next submitted segment when the pool has a free thread and
   finishes at any later time. *)

\* segments the model lets the segmenter find
MaxSegments == 3

\* max_workers of the pool
MaxWorkers == 2

\* the answer of an engine that raises, where the other answers are lists of
\* segment texts
Raises == << Raise >>

\* transcribe_segment: the stripped texts of the engine's segments joined by
\* spaces and stripped, "" when the engine raises
transcribe_segment(answer) ==
  IF answer = Raises THEN <<>> ELSE Strip(JoinStripped(answer, 1))

\* a variant of ResultSlot that files a text under the rank in which its
\* worker finished
ResultSlotByCompletion(segment_index, order) ==
  CHOOSE k \in 1..Len(order) : order[k] = segment_index

\* segment_index = future_to_segment[future]
ResultSlot(segment_index, order) == segment_index

\* lines 78-87 of transcriber.py: the text of a finished future stored in results
StoreResult(results, segment_index, segment_text, order) ==
  IF segment_text # <<>>
  THEN [results EXCEPT ![ResultSlot(segment_index, order)] = segment_text]
  ELSE results

RECURSIVE JoinTexts(_, _)
\* " ".join(stitched_segments), from the k-th on
JoinTexts(texts, k) ==
  IF k > Len(texts) THEN <<>>
  ELSE texts[k] \o (IF k < Len(texts) THEN <<" ">> ELSE <<>>)
         \o JoinTexts(texts, k + 1)

\* the keys process_audio documents
ResultKeys ==
  {"text_to_paste", "new_processing_mode", "new_stt_hint", "paste_successful"}

\* lines 130, 170, 182 and 228 of processor.py: the early return
EarlyReturn(in) ==
  [paste_successful |-> FALSE, mode |-> in.current_processing_mode,
   hint |-> in.current_stt_hint]

\* what the segmented process_audio leaves behind: the list of
\* transcribe_parallel, the returned dictionary unless an exception left the
\* function, and the branch it ended in
SegmentedOutcome(texts, raised, result, path) ==
  [texts |-> texts, raised |-> raised, result |-> result, path |-> path]

NoOutcome == SegmentedOutcome(<<>>, FALSE, <<>>, "none")

\* lines 270-313: the cleaned text handled by the mode; no handler catches
\* an exception of the LLM client here
SegmentedByMode(in, texts, cleaned_text, path) ==
  IF ProcessByMode(in.current_processing_mode, cleaned_text,
                   in.signal_configs, in.llm, 1).raised
  THEN SegmentedOutcome(texts, TRUE, <<>>, path)
  ELSE SegmentedOutcome(texts, FALSE,
         ProcessAudioResult(
           ProcessByMode(in.current_processing_mode, cleaned_text,
                         in.signal_configs, in.llm, 1).text_to_paste,
           in.current_processing_mode, in.current_stt_hint,
           ProcessByMode(in.current_processing_mode, cleaned_text,
                         in.signal_configs, in.llm, 1).paste_successful),
         path)

\* lines 184-268: a command matched.  Its action list goes to
\* execute_actions as config.py has it, a list of strings, and the executor's
\* parsed_action.get raises AttributeError on the first of them; an empty
\* list changes neither mode nor hint, so that the re-run of lines 208-228
\* is not reached and the mode handles the cleaned text
SegmentedCommand(in, texts, cleaned_text, found) ==
  IF in.signal_configs[found.config].action.items # <<>>
  THEN SegmentedOutcome(texts, TRUE, <<>>, "command")
  ELSE SegmentedByMode(in, texts, cleaned_text, "command")

\* lines 179-313
SegmentedCleaned(in, texts, cleaned_text) ==
  IF cleaned_text = <<>>
  THEN SegmentedOutcome(texts, FALSE, EarlyReturn(in), "filtered")
  ELSE IF find_matching_signal(cleaned_text, in.signal_configs).config # 0
  THEN SegmentedCommand(in, texts, cleaned_text,
                        find_matching_signal(cleaned_text, in.signal_configs))
  ELSE SegmentedByMode(in, texts, cleaned_text, "default")

\* lines 168-179
SegmentedSanitized(in, texts, final_full_sanitized_text) ==
  IF final_full_sanitized_text = <<>>
  THEN SegmentedOutcome(texts, FALSE, EarlyReturn(in), "empty")
  ELSE SegmentedCleaned(in, texts, clean_output_text(final_full_sanitized_text))

\* lines 146-166: the texts stitched in their order, or the transcription of
\* the whole audio when a segment was empty
SegmentedStitched(in, texts) ==
  IF \E i \in 1..Len(texts) : texts[i] = <<>>
  THEN SegmentedSanitized(in, texts, Strip(transcribe_segment(in.fallback)))
  ELSE SegmentedSanitized(in, texts, Strip(JoinTexts(texts, 1)))

\* what the engine makes of one segment
SegmentAnswers ==
  { Raises,
    <<>>,
    << <<"q">> >>,
    << <<" ", "x">>, <<"w", " ">> >>,
    << <<"Y", "o", "u">> >> }

\* what it makes of the whole audio
FallbackAnswers == { Raises, << <<"q">>, <<"x">> >> }

\* a command without actions and the translation command of config.py
SegmentedCommands ==
  << Command(<<"note">>, StrPhrase(<<"q">>), "start", ActionList(<<>>), None, None),
     Command(<<"mode:de-CH">>, ListPhrase(<< <<"x">> >>), "start",
             ActionList(<< <<"mode", ":", "de-CH">> >>),
             <<"T", ":", "{text}">>, <<"claude-3-haiku-20240307">>) >>

SegmentedInputs ==
  [answers : SeqsUpTo(SegmentAnswers, MaxSegments),
   fallback : FallbackAnswers,
   current_processing_mode : Modes,
   current_stt_hint : { None, <<"de-DE">> },
   signal_configs : { SegmentedCommands, <<>> },
   llm : { <<first, None>> : first \in {<<"R">>, Raise} }]

InitSegmented ==
  /\ SignalUnused
  /\ OrchestratorUnused
  /\ ParseUnused
  /\ ExecuteUnused
  /\ TurnUnused
  /\ HotkeyUnused
  /\ RecorderUnused
  /\ LoadUnused
  /\ tp_pc = "call"
  /\ tp_in \in SegmentedInputs
  /\ tp_futures = <<>>
  /\ tp_results = <<>>
  /\ tp_next = 0
  /\ tp_order = <<>>
  /\ tp_out = NoOutcome

SegmentedOthers ==
  UNCHANGED <<sig_vars, ap_vars, orch_vars, parse_vars, exec_vars, hk_vars,
              rec_vars, load_vars>>

\* lines 126-143 of processor.py and 65-73 of transcriber.py: no segments
\* end the turn, otherwise every segment is submitted to the pool
SplitAndSubmit ==
  /\ tp_pc = "call"
  /\ IF tp_in.answers = <<>>
     THEN /\ tp_pc' = "returned"
          /\ tp_out' = SegmentedOutcome(<<>>, FALSE, EarlyReturn(tp_in), "no_segments")
          /\ UNCHANGED <<tp_futures, tp_results, tp_next>>
     ELSE /\ tp_pc' = "collect"
          /\ tp_futures' = [i \in 1..Len(tp_in.answers) |-> "pending"]
          /\ tp_results' = [i \in 1..Len(tp_in.answers) |-> <<>>]
          /\ tp_next' = 1
          /\ UNCHANGED tp_out
  /\ UNCHANGED <<tp_in, tp_order>>
  /\ SegmentedOthers

\* a thread of the pool takes the oldest submitted segment
WorkerStarts(i) ==
  /\ i \in 1..Len(tp_futures)
  /\ tp_futures[i] = "pending"
  /\ \A j \in 1..(i - 1) : tp_futures[j] # "pending"
  /\ Cardinality({j \in 1..Len(tp_futures) : tp_futures[j] = "running"}) < MaxWorkers
  /\ tp_futures' = [tp_futures EXCEPT ![i] = "running"]
  /\ UNCHANGED <<tp_pc, tp_in, tp_results, tp_next, tp_order, tp_out>>
  /\ SegmentedOthers

\* transcribe_segment returns in the worker
WorkerFinishes(i) ==
  /\ i \in 1..Len(tp_futures)
  /\ tp_futures[i] = "running"
  /\ tp_futures' = [tp_futures EXCEPT ![i] = "done"]
  /\ tp_order' = Append(tp_order, i)
  /\ UNCHANGED <<tp_pc, tp_in, tp_results, tp_next, tp_out>>
  /\ SegmentedOthers

\* lines 77-87 of transcriber.py: future.result() of the next future of
\* future_to_segment, which waits for its worker
CollectResult ==
  /\ tp_pc = "collect"
  /\ tp_futures[tp_next] = "done"
  /\ tp_results' = StoreResult(tp_results, tp_next,
                               transcribe_segment(tp_in.answers[tp_next]), tp_order)
  /\ tp_next' = tp_next + 1
  /\ tp_pc' = IF tp_next = Len(tp_futures) THEN "shutdown" ELSE "collect"
  /\ UNCHANGED <<tp_in, tp_futures, tp_order, tp_out>>
  /\ SegmentedOthers

\* lines 89-90: the return of results, through the exit of the with block,
\* which waits for the workers of the pool
ReturnResults ==
  /\ tp_pc = "shutdown"
  /\ \A i \in 1..Len(tp_futures) : tp_futures[i] = "done"
  /\ tp_pc' = "stitch"
  /\ tp_out' = [tp_out EXCEPT !.texts = tp_results]
  /\ UNCHANGED <<tp_in, tp_futures, tp_results, tp_next, tp_order>>
  /\ SegmentedOthers

\* lines 144-313 of processor.py
StitchAndProcess ==
  /\ tp_pc = "stitch"
  /\ tp_pc' = "returned"
  /\ tp_out' = SegmentedStitched(tp_in, tp_out.texts)
  /\ UNCHANGED <<tp_in, tp_futures, tp_results, tp_next, tp_order>>
  /\ SegmentedOthers

NextSegmented ==
  \/ SplitAndSubmit
  \/ \E i \in 1..MaxSegments : WorkerStarts(i)
  \/ \E i \in 1..MaxSegments : WorkerFinishes(i)
  \/ CollectResult
  \/ ReturnResults
  \/ StitchAndProcess

SpecSegmented == InitSegmented /\ [][NextSegmented]_vars

-----------------------------------------------------------------------------
(* Claims about the segmented turn *)

\* transcribe_parallel has returned
ParallelReturned == tp_pc \in {"stitch", "returned"} /\ tp_in.answers # <<>>

\* C31: for every list of segments and every completion order of the worker
\* threads, transcribe_parallel returns a list of the same length whose i-th
\* element is the transcript of the i-th segment (the empty string if that
\* segment failed or produced no text), and it returns only after all
\* workers have finished.
C31_OrderPreservingReassembly ==
  ParallelReturned =>
    /\ Len(tp_out.texts) = Len(tp_in.answers)
    /\ \A i \in 1..Len(tp_in.answers) :
         tp_out.texts[i] = IF tp_in.answers[i] = Raises THEN <<>>
                           ELSE Strip(JoinStripped(tp_in.answers[i], 1))
    /\ \A i \in 1..Len(tp_futures) : tp_futures[i] = "done"
    /\ Len(tp_order) = Len(tp_in.answers)

\* three segments with different texts, the worker of the second finished
\* before the worker of the first, and the list was returned
C31_Witness ==
  /\ ParallelReturned
  /\ Len(tp_in.answers) = 3
  /\ tp_order[1] = 2
  /\ tp_out.texts[1] # <<>>
  /\ tp_out.texts[2] # <<>>
  /\ tp_out.texts[1] # tp_out.texts[2]

\* a segment whose transcription raised lies between two that have a text
C31_FailedSegmentReached ==
  /\ ParallelReturned
  /\ Len(tp_in.answers) = 3
  /\ tp_in.answers[2] = Raises
  /\ tp_out.texts[1] # <<>>
  /\ tp_out.texts[3] # <<>>

\* the segmented process_audio has returned a dictionary
SegmentedReturned == tp_pc = "returned" /\ ~tp_out.raised

\* C34: on every return path (no frames or segments, empty transcript,
\* filtered text, matched command, default mode, error) the dictionary
\* process_audio returns contains exactly the keys text_to_paste,
\* new_processing_mode, new_stt_hint and paste_successful.
C34_ResultShape ==
  SegmentedReturned => DOMAIN tp_out.result = ResultKeys

\* the segmented process_audio returns the documented keys from the end of
\* the function, and paste_successful, mode and hint from its early returns
C34_ResultShapeByPath ==
  SegmentedReturned =>
    DOMAIN tp_out.result =
      IF tp_out.path \in {"no_segments", "empty", "filtered"}
      THEN {"paste_successful", "mode", "hint"}
      ELSE ResultKeys

\* the process_audio of audio_processor.py returns the documented keys on
\* every path
C34_TurnResultShape ==
  TurnReturned => DOMAIN ap_out.result = ResultKeys

-----------------------------------------------------------------------------
(* audio_processor.AudioProcessor.__init__: the command table loaded from
   config.py, and a turn of the processor that was constructed. *)

\* COMMANDS as the module has it, if it has one
ConfigModule(kind, COMMANDS) == [kind |-> kind, COMMANDS |-> COMMANDS]

\* what the constructor keeps of the module
Processor(signal_configs, has_commands_by_name) ==
  [signal_configs |-> signal_configs,
   has_commands_by_name |-> has_commands_by_name]

\* a variant of LoadSignalConfigs that takes any COMMANDS the module has
LoadSignalConfigsAnyCommands(app_config) ==
  IF app_config.kind \in {"list", "not_a_list"}
  THEN Processor(app_config.COMMANDS, TRUE)
  ELSE Processor(<<>>, FALSE)

\* lines 57-77: COMMANDS is taken when the import succeeds and the module
\* has a COMMANDS that is a list; commands_by_name is set with it only
LoadSignalConfigs(app_config) ==
  IF app_config.kind = "list"
  THEN Processor(app_config.COMMANDS, TRUE)
  ELSE Processor(<<>>, FALSE)

\* config.py cannot be imported, raises while it is loaded, has no COMMANDS,
\* has COMMANDS that is a tuple, or has a list
ConfigModules ==
  { ConfigModule("import_error", <<>>),
    ConfigModule("raises", <<>>),
    ConfigModule("no_commands", <<>>),
    ConfigModule("not_a_list", ConfigCommands),
    ConfigModule("list", ConfigCommands),
    ConfigModule("list", <<>>) }

\* the turn of a processor: without commands_by_name the translation mode
\* raises AttributeError at line 359, which lines 392-403 catch
LoadedTurnOf(processor, in, out) ==
  IF /\ ~processor.has_commands_by_name
     /\ out.path = "no_signal"
     /\ in.current_processing_mode = <<"de-CH">>
  THEN TurnOutcome(Original(in), out.stt_calls, NoSignal, <<>>,
                   NoActionResults, <<>>, "exception")
  ELSE out

LoadedTurn(processor, in) ==
  LoadedTurnOf(processor, in,
               process_audio([in EXCEPT !.signal_configs = processor.signal_configs]))

LoadTranscriptions ==
  { Raise,
    <<>>,
    << <<"Y", "o", "u", "!">> >>,
    << <<"x">>, <<" ">>, <<" ", "ß", " ">> >>,
    << <<" ", "W", ",", " ", "x">> >>,
    << <<"g">> >>,
    << <<"l", ".">> >> }

LoadInputs ==
  [config : ConfigModules,
   turn : [frames : {TRUE}, current_processing_mode : Modes,
           current_stt_hint : { None, <<"de-DE">> },
           default_stt_language : { <<"en">> }, signal_configs : { <<>> },
           stt1 : LoadTranscriptions, stt2 : { <<>> },
           env : [llm : { <<first, None>> : first \in {<<"R">>, Raise} },
                  clipboard : { <<"c">> }, ner : {"entities"}]]]

NotConstructed == [processor |-> Processor(<<>>, FALSE), turn |-> <<>>]

InitLoad ==
  /\ SignalUnused
  /\ OrchestratorUnused
  /\ ParseUnused
  /\ ExecuteUnused
  /\ TurnUnused
  /\ SegmentedUnused
  /\ HotkeyUnused
  /\ RecorderUnused
  /\ ld_pc = "construct"
  /\ ld_in \in LoadInputs
  /\ ld_out = NotConstructed

LoadOthers ==
  UNCHANGED <<sig_vars, ap_vars, orch_vars, parse_vars, exec_vars, seg_vars,
              hk_vars, rec_vars>>

\* AudioProcessor(...)
Construct ==
  /\ ld_pc = "construct"
  /\ ld_pc' = "call"
  /\ ld_out' = [ld_out EXCEPT !.processor = LoadSignalConfigs(ld_in.config)]
  /\ UNCHANGED ld_in
  /\ LoadOthers

\* process_audio of the constructed processor
ConstructedTurn ==
  /\ ld_pc = "call"
  /\ ld_pc' = "returned"
  /\ ld_out' = [ld_out EXCEPT !.turn = LoadedTurn(ld_out.processor, ld_in.turn)]
  /\ UNCHANGED ld_in
  /\ LoadOthers

NextLoad == Construct \/ ConstructedTurn

SpecLoad == InitLoad /\ [][NextLoad]_vars

-----------------------------------------------------------------------------
(* Claims about the constructed processor *)

\* the command table could not be loaded
LoadFailed == ld_in.config.kind # "list"

\* the cleaned transcript of the turn
LoadCleanedText ==
  clean_output_text(Strip(AccumulateSegments(ld_in.turn.stt1, 1, <<>>)))

\* C33: when the command table cannot be loaded (import error, missing or
\* non-list COMMANDS), the processor is still constructed with an empty
\* table, no turn ever matches a command, and in mode normal every
\* non-empty cleaned transcript is returned for pasting verbatim.
C33_LoadFailureDegradesToPassthrough ==
  (LoadFailed /\ ld_pc # "construct") =>
    /\ ld_out.processor.signal_configs = <<>>
    /\ ld_pc = "returned" =>
         /\ ld_out.turn.chosen = 0
         /\ ld_out.turn.parsed_actions = <<>>
         /\ (/\ ld_in.turn.current_processing_mode = <<"normal">>
             /\ ld_in.turn.stt1 # Raise
             /\ LoadCleanedText # <<>>)
            => ld_out.turn.result =
                 ProcessAudioResult(LoadCleanedText, <<"normal">>,
                                    ld_in.turn.current_stt_hint, TRUE)

\* COMMANDS is a tuple, the transcript starts with the phrase of a command
\* of it, and the turn in mode normal returned the transcript
C33_Witness ==
  /\ ld_pc = "returned"
  /\ ld_in.config.kind = "not_a_list"
  /\ ld_in.turn.current_processing_mode = <<"normal">>
  /\ ld_in.turn.stt1 = << <<"g">> >>
  /\ ld_out.turn.result.paste_successful
  /\ ld_out.turn.result.text_to_paste = <<"g">>

\* the import failed and the turn returned the transcript
C33_ImportErrorReached ==
  /\ ld_pc = "returned"
  /\ ld_in.config.kind = "import_error"
  /\ ld_out.turn.result.paste_successful
  /\ ld_out.turn.result.text_to_paste = <<"W", ",", " ", "x">>

\* a loaded table matches the command
C33_LoadedTableMatches ==
  /\ ld_pc = "returned"
  /\ ld_in.config = ConfigModule("list", ConfigCommands)
  /\ ld_out.turn.chosen # 0

-----------------------------------------------------------------------------
(* hotkey.HotkeyManager: the callbacks _on_press and _on_release, which the
   listener thread runs one at a time, and suppress, which the thread that
   simulates a keystroke calls.  Time is counted in tenths of a second. *)

\* the clock of the model stops here
MaxTime == 1

\* _action_cooldown = 0.1
ACTION_COOLDOWN == 1

\* the keys the user of the model touches: both Option keys, the left arrow
\* and Esc
HotkeyKeys == {"alt_l", "alt_r", "left", "esc"}

\* keyboard.Key.alt, alt_l and alt_r
AltKeys == {"alt_l", "alt_r"}

\* ptt_keys of the constructor: the right Option key
ptt_trigger_keys == {"alt_r"}

\* the keys of _modifier_keys
ModifierNames == {"option", "ctrl", "shift", "arrow_right", "arrow_left"}

\* lines 33-52: the fields after construction
NewManager ==
  [ptt_key_held |-> FALSE, suppressed |-> FALSE,
   send_enter_after_paste |-> FALSE,
   modifier_keys |-> [k \in ModifierNames |-> FALSE],
   active_combos |-> {}, action_cooldowns |-> {}]

\* the manager m and the callbacks the handler has called so far
Handling(m, calls) == [m |-> m, calls |-> calls]

\* lines 54-83
update_key_state(m, key, is_pressed) ==
  [m EXCEPT
     !.ptt_key_held = IF key \in ptt_trigger_keys THEN is_pressed ELSE @,
     !.modifier_keys =
        IF key = "left" THEN [@ EXCEPT !.arrow_left = is_pressed]
        ELSE IF key = "right" THEN [@ EXCEPT !.arrow_right = is_pressed]
        ELSE IF key \in AltKeys THEN [@ EXCEPT !.option = is_pressed]
        ELSE IF key = "ctrl" THEN [@ EXCEPT !.ctrl = is_pressed]
        ELSE IF key = "shift" THEN [@ EXCEPT !.shift = is_pressed]
        ELSE @]

\* lines 89-94: the action was triggered less than the cooldown ago
InCooldown(m, action_name, current_time) ==
  /\ DictHas(m.action_cooldowns, action_name)
  /\ current_time - DictGet(m.action_cooldowns, action_name, 0) < ACTION_COOLDOWN

\* a variant of trigger_action without the cooldown
TriggerActionAlways(st, action_name, action_func, current_time, fails) ==
  IF action_name \in fails
  THEN [st EXCEPT !.calls = Append(@, action_func)]
  ELSE [st EXCEPT !.calls = Append(@, action_func),
                  !.m.action_cooldowns = DictSet(@, action_name, current_time)]

\* lines 85-101: the callback is called unless the action is in its
\* cooldown; a callback that raises leaves the time of the last trigger
trigger_action(st, action_name, action_func, current_time, fails) ==
  IF InCooldown(st.m, action_name, current_time) THEN st
  ELSE IF action_name \in fails
  THEN [st EXCEPT !.calls = Append(@, action_func)]
  ELSE [st EXCEPT !.calls = Append(@, action_func),
                  !.m.action_cooldowns = DictSet(@, action_name, current_time)]

\* lines 107-112
ComboHelpOverlay(st, current_time, fails) ==
  IF /\ st.m.modifier_keys.option
     /\ st.m.modifier_keys.shift
     /\ "option_shift" \notin st.m.active_combos
  THEN trigger_action([st EXCEPT !.m.active_combos = @ \cup {"option_shift"}],
                      "help overlay", "on_help_overlay", current_time, fails)
  ELSE st

\* lines 114-119
ComboStopPlayback(st, current_time, fails) ==
  IF /\ st.m.modifier_keys.option
     /\ st.m.modifier_keys.arrow_right
     /\ "option_right" \notin st.m.active_combos
  THEN trigger_action([st EXCEPT !.m.active_combos = @ \cup {"option_right"}],
                      "stop playback", "on_stop_playback", current_time, fails)
  ELSE st

\* lines 121-127
ComboDotEnter(st, current_time, fails) ==
  IF /\ st.m.modifier_keys.option
     /\ st.m.modifier_keys.arrow_left
     /\ "option_left" \notin st.m.active_combos
  THEN trigger_action([st EXCEPT !.m.active_combos = @ \cup {"option_left"},
                                 !.m.send_enter_after_paste = TRUE],
                      "dot enter", "on_dot_enter", current_time, fails)
  ELSE st

\* lines 129-136
ComboPtt(st, current_time, fails) ==
  IF /\ st.m.modifier_keys.option
     /\ st.m.ptt_key_held
     /\ "ptt_active" \notin st.m.active_combos
  THEN trigger_action([st EXCEPT !.m.active_combos = @ \cup {"ptt_active"}],
                      "PTT start", "on_ptt_start", current_time, fails)
  ELSE st

\* lines 103-138
check_hotkey_combos(st, current_time, fails) ==
  ComboPtt(ComboDotEnter(ComboStopPlayback(ComboHelpOverlay(st, current_time, fails),
                                           current_time, fails),
                         current_time, fails),
           current_time, fails)

\* lines 207-213
reset_state(m) ==
  [m EXCEPT !.modifier_keys = [k \in ModifierNames |-> FALSE],
            !.ptt_key_held = FALSE,
            !.active_combos = {},
            !.send_enter_after_paste = FALSE]

\* lines 140-164
on_press(st, key, current_time, fails) ==
  IF st.m.suppressed THEN st
  ELSE IF key = "esc"
  THEN [trigger_action(st, "cancel", "on_cancel", current_time, fails)
          EXCEPT !.m = reset_state(@)]
  ELSE check_hotkey_combos([st EXCEPT !.m = update_key_state(@, key, TRUE)],
                           current_time, fails)

\* lines 176-184: the release of a PTT key drops the cooldown of the stop
\* and calls on_ptt_stop
ReleasePtt(st, key, current_time, fails) ==
  IF key \in ptt_trigger_keys
  THEN trigger_action(
         [st EXCEPT !.m.ptt_key_held = FALSE,
                    !.m.action_cooldowns = {item \in @ : item[1] # "PTT stop"},
                    !.m.active_combos = @ \ {"ptt_active"}],
         "PTT stop", "on_ptt_stop", current_time, fails)
  ELSE st

\* lines 186-199
ReleaseCombos(m, key) ==
  IF key \in AltKeys
  THEN [m EXCEPT !.active_combos =
          @ \ {"option_shift", "option_right", "option_left", "ptt_active"}]
  ELSE IF key = "shift"
  THEN [m EXCEPT !.active_combos = @ \ {"option_shift"}]
  ELSE IF key = "left"
  THEN [m EXCEPT !.active_combos = @ \ {"option_left"}]
  ELSE IF key = "right"
  THEN [m EXCEPT !.active_combos = @ \ {"option_right"}]
  ELSE IF key = "esc" THEN reset_state(m)
  ELSE m

\* lines 166-205
on_release(st, key, current_time, fails) ==
  IF st.m.suppressed THEN st
  ELSE [ReleasePtt([st EXCEPT !.m = update_key_state(@, key, FALSE)],
                   key, current_time, fails)
          EXCEPT !.m = ReleaseCombos(@, key)]

\* the callbacks that raise when they are called
CallbackFailures == { {}, {"cancel"} }

\* the callbacks on_ptt_start an event called
StartsIn(calls) == Len(SelectSeq(calls, LAMBDA c : c = "on_ptt_start"))

StopsIn(calls) == Len(SelectSeq(calls, LAMBDA c : c = "on_ptt_stop"))

\* the last of on_ptt_start and on_ptt_stop that was called
LastPtt(last_ptt, calls) ==
  IF SelectSeq(calls, LAMBDA c : c \in {"on_ptt_start", "on_ptt_stop"}) = <<>>
  THEN last_ptt
  ELSE SelectSeq(calls, LAMBDA c : c \in {"on_ptt_start", "on_ptt_stop"})[
         Len(SelectSeq(calls, LAMBDA c : c \in {"on_ptt_start", "on_ptt_stop"}))]

\* the environment after an event: the keys that are down, the callbacks the
\* event called, the last PTT callback, the calls of on_ptt_start since the
\* PTT key went down, and whether every event so far was one of another key
\* than Esc that reached a manager that was not suppressed
AfterEvent(env, kind, key, down, calls, suppressed) ==
  [env EXCEPT
     !.down = down,
     !.calls = calls,
     !.plain = @ /\ key # "esc" /\ ~suppressed,
     !.last_ptt = LastPtt(@, calls),
     !.starts_in_hold =
        IF kind = "press" /\ key \in ptt_trigger_keys /\ key \notin env.down
        THEN StartsIn(calls)
        ELSE IF @ + StartsIn(calls) > 2 THEN 2 ELSE @ + StartsIn(calls)]

InitHotkey ==
  /\ SignalUnused
  /\ OrchestratorUnused
  /\ ParseUnused
  /\ ExecuteUnused
  /\ TurnUnused
  /\ SegmentedUnused
  /\ RecorderUnused
  /\ LoadUnused
  /\ hk = NewManager
  /\ hk_env = [down |-> {}, now |-> 0, calls |-> <<>>, last_ptt |-> "none",
               starts_in_hold |-> 0, plain |-> TRUE]

HotkeyOthers ==
  UNCHANGED <<sig_vars, ap_vars, orch_vars, parse_vars, exec_vars, seg_vars,
              rec_vars, load_vars>>

\* a key goes down, or repeats while it is down: _on_press
KeyPress(key) ==
  \E fails \in CallbackFailures :
    /\ hk' = on_press(Handling(hk, <<>>), key, hk_env.now, fails).m
    /\ hk_env' = AfterEvent(hk_env, "press", key, hk_env.down \cup {key},
                            on_press(Handling(hk, <<>>), key, hk_env.now, fails).calls,
                            hk.suppressed)
    /\ HotkeyOthers

\* a key that is down goes up: _on_release
KeyRelease(key) ==
  /\ key \in hk_env.down
  /\ \E fails \in CallbackFailures :
       /\ hk' = on_release(Handling(hk, <<>>), key, hk_env.now, fails).m
       /\ hk_env' = AfterEvent(hk_env, "release", key, hk_env.down \ {key},
                               on_release(Handling(hk, <<>>), key, hk_env.now, fails).calls,
                               hk.suppressed)
  /\ HotkeyOthers

\* suppress(suppress), lines 261-264
Suppress(suppress) ==
  /\ hk.suppressed # suppress
  /\ hk' = [hk EXCEPT !.suppressed = suppress]
  /\ hk_env' = [hk_env EXCEPT !.calls = <<>>]
  /\ HotkeyOthers

\* a tenth of a second passes
Tick ==
  /\ hk_env.now < MaxTime
  /\ hk_env' = [hk_env EXCEPT !.now = @ + 1, !.calls = <<>>]
  /\ UNCHANGED hk
  /\ HotkeyOthers

NextHotkey ==
  \/ \E key \in HotkeyKeys : KeyPress(key)
  \/ \E key \in HotkeyKeys : KeyRelease(key)
  \/ \E suppress \in BOOLEAN : Suppress(suppress)
  \/ Tick

SpecHotkey == InitHotkey /\ [][NextHotkey]_vars

-----------------------------------------------------------------------------
(* Claims about the HotkeyManager *)

\* a step in which the key goes up while the manager is not suppressed
UnsuppressedRelease(key) ==
  /\ key \in hk_env.down
  /\ key \notin hk_env'.down
  /\ ~hk.suppressed

\* a step in which the key goes down while the manager is not suppressed
UnsuppressedPress(key) ==
  /\ key \notin hk_env.down
  /\ key \in hk_env'.down
  /\ ~hk.suppressed

\* while the PTT key is held, without an Escape or a suppressed event so
\* far, on_ptt_start is called at most once
C38_OneStartPerHold == [](hk_env.plain => hk_env.starts_in_hold <= 1)

\* every unsuppressed release of the PTT key calls on_ptt_stop exactly once,
\* whatever the cooldowns
C38_ReleaseAlwaysStops ==
  [][\A key \in ptt_trigger_keys :
       UnsuppressedRelease(key) => StopsIn(hk_env'.calls) = 1]_vars

\* as long as no Escape and no suppressed event comes between, on_ptt_start
\* is called only after a stop or at the beginning, and on_ptt_stop only
\* after a start
C38_StartsAndStopsAlternate ==
  [][hk_env'.plain =>
       /\ StartsIn(hk_env'.calls) + StopsIn(hk_env'.calls) <= 1
       /\ StartsIn(hk_env'.calls) = 1 => hk_env.last_ptt # "on_ptt_start"
       /\ StopsIn(hk_env'.calls) = 1 => hk_env.last_ptt = "on_ptt_start"]_vars

\* C38: while the PTT key is held without an intervening Escape, repeated
\* press events trigger on_ptt_start at most once, and every unsuppressed
\* release of the PTT key triggers on_ptt_stop exactly once regardless of
\* the action cooldown, so starts and stops alternate.
C38_PttStartAndStopPairUp ==
  /\ C38_OneStartPerHold
  /\ C38_ReleaseAlwaysStops
  /\ C38_StartsAndStopsAlternate

\* the manager as _reset_state leaves it
IsReset(m) ==
  /\ \A k \in ModifierNames : ~m.modifier_keys[k]
  /\ ~m.ptt_key_held
  /\ m.active_combos = {}
  /\ ~m.send_enter_after_paste

\* C39: an unsuppressed Escape press invokes on_cancel and leaves every
\* modifier flag false, ptt_key_held false, the active-combo set empty and
\* the send-enter-after-paste flag cleared, and it triggers no PTT start or
\* other combo action for that event.
C39_EscapeOverridesEverything ==
  [][UnsuppressedPress("esc") =>
       /\ hk_env'.calls = <<"on_cancel">>
       /\ IsReset(hk')]_vars

\* an unsuppressed Escape press leaves the state reset and calls nothing but
\* on_cancel, which it calls unless a cancel was triggered less than the
\* cooldown before
C39_EscapeResetsAndCancelsOutsideCooldown ==
  [][UnsuppressedPress("esc") =>
       /\ IsReset(hk')
       /\ hk_env'.calls =
            IF InCooldown(hk, "cancel", hk_env.now) THEN <<>>
            ELSE <<"on_cancel">>]_vars

\* Escape was pressed while the PTT key and the left arrow were held with
\* the send-enter flag set: on_cancel was called and the state is reset
C39_Witness ==
  /\ hk_env.down = {"alt_r", "left", "esc"}
  /\ hk_env.calls = <<"on_cancel">>
  /\ hk_env.last_ptt = "on_ptt_start"
  /\ DictHas(hk.action_cooldowns, "dot enter")
  /\ IsReset(hk)

\* Escape was pressed within the cooldown of an earlier cancel
C39_CooldownReached ==
  /\ "esc" \in hk_env.down
  /\ hk_env.calls = <<>>
  /\ InCooldown(hk, "cancel", hk_env.now)
  /\ IsReset(hk)
  /\ ~hk.suppressed

\* a key event that arrives while the manager is suppressed changes none of
\* its fields and calls no callback
C37_SuppressedManagerIgnoresEvents ==
  [][(hk.suppressed /\ hk_env'.down # hk_env.down) =>
       (hk' = hk /\ hk_env'.calls = <<>>)]_vars

\* ---------------------------------------------------------------------
\* AudioRecorder (audio_recorder.py): start_recording and stop_recording
\* are called from the listener thread, _recording_loop runs in the
\* recording thread.  Each recording gets a number; a frame carries the
\* number of the recording whose thread appended it, and the duration
\* carries the number of the recording whose thread computed it.  The
\* environment remembers the last step taken, the number of recordings
\* started and what the last call of stop_recording returned.
\* ---------------------------------------------------------------------

MaxRecordings == 2

MaxFrames == 2

MaxClock == 2

\* lines 29-33: the fields after __init__; start_time None is the empty
\* sequence, duration 0 belongs to no recording
NewRecorder ==
  [thread |-> "none", thread_of |-> 0, pc |-> "none", stop_event |-> FALSE,
   frames |-> <<>>, start_time |-> <<>>, duration |-> [value |-> 0, of |-> 0]]

\* what stop_recording returns (line 74), and whether its join timed out
Returns(r, timed_out) ==
  << [frames |-> r.frames, duration |-> r.duration, timed_out |-> timed_out] >>

InitRecorder ==
  /\ SignalUnused
  /\ OrchestratorUnused
  /\ ParseUnused
  /\ ExecuteUnused
  /\ TurnUnused
  /\ SegmentedUnused
  /\ HotkeyUnused
  /\ LoadUnused
  /\ rec = NewRecorder
  /\ rec_env = [now |-> 0, started |-> 0, caller |-> "idle", last |-> "none",
                returned |-> <<>>]

RecorderOthers ==
  UNCHANGED <<sig_vars, ap_vars, orch_vars, parse_vars, exec_vars, seg_vars,
              hk_vars, load_vars>>

\* start_recording, lines 38-56: a live thread is returned as it is;
\* otherwise the frames are emptied, the start time is taken, the stop event
\* is cleared and a new thread is started
StartRecording ==
  /\ rec_env.caller = "idle"
  /\ IF rec.thread = "alive"
     THEN /\ rec' = rec
          /\ rec_env' = [rec_env EXCEPT !.last = "start_ignored", !.returned = <<>>]
     ELSE /\ rec_env.started < MaxRecordings
          /\ rec' = [rec EXCEPT !.frames = <<>>,
                                !.start_time = << rec_env.now >>,
                                !.stop_event = FALSE,
                                !.thread = "alive",
                                !.thread_of = rec_env.started + 1,
                                !.pc = "started"]
          /\ rec_env' = [rec_env EXCEPT !.started = @ + 1, !.last = "start",
                                        !.returned = <<>>]
  /\ RecorderOthers

\* stop_recording, lines 58-74, up to the join: with a live thread the stop
\* event is set and the caller waits; without one the fields are returned
StopRecording ==
  /\ rec_env.caller = "idle"
  /\ IF rec.thread = "alive"
     THEN /\ rec' = [rec EXCEPT !.stop_event = TRUE]
          /\ rec_env' = [rec_env EXCEPT !.caller = "joining", !.last = "stop",
                                        !.returned = <<>>]
     ELSE /\ rec' = rec
          /\ rec_env' = [rec_env EXCEPT !.last = "stop",
                                        !.returned = Returns(rec, FALSE)]
  /\ RecorderOthers

\* lines 67-74: join(timeout=1.0) returns, because the thread has ended or
\* because the second is over, and the fields are returned as they are
JoinReturns ==
  /\ rec_env.caller = "joining"
  /\ rec' = rec
  /\ rec_env' = [rec_env EXCEPT !.caller = "idle", !.last = "join",
                                !.returned = Returns(rec, rec.thread = "alive")]
  /\ RecorderOthers

\* _recording_loop, lines 76-87: without a start time the thread returns;
\* opening the stream may raise, which leads to the finally block
ThreadOpens ==
  /\ rec.thread = "alive"
  /\ rec.pc = "started"
  /\ \E opens \in BOOLEAN :
       rec' = IF rec.start_time = <<>>
              THEN [rec EXCEPT !.thread = "finished", !.pc = "none"]
              ELSE [rec EXCEPT !.pc = IF opens THEN "loop" ELSE "finally"]
  /\ rec_env' = [rec_env EXCEPT !.last = "thread"]
  /\ RecorderOthers

\* line 89: the loop condition
LoopChecks ==
  /\ rec.thread = "alive"
  /\ rec.pc = "loop"
  /\ rec' = [rec EXCEPT !.pc = IF rec.stop_event THEN "finally" ELSE "reading"]
  /\ rec_env' = [rec_env EXCEPT !.last = "thread"]
  /\ RecorderOthers

\* lines 103-108: next(stream) yields a frame, which is appended, or the
\* stream ends or raises
LoopReads ==
  /\ rec.thread = "alive"
  /\ rec.pc = "reading"
  /\ \/ /\ Len(rec.frames) < MaxFrames
        /\ rec' = [rec EXCEPT !.frames = Append(@, rec.thread_of), !.pc = "loop"]
     \/ rec' = [rec EXCEPT !.pc = "finally"]
  /\ rec_env' = [rec_env EXCEPT !.last = "thread"]
  /\ RecorderOthers

\* lines 114-127: the finally block stores the duration and the thread ends
LoopFinally ==
  /\ rec.thread = "alive"
  /\ rec.pc = "finally"
  /\ rec' = [rec EXCEPT !.duration = [value |-> rec_env.now - rec.start_time[1],
                                      of |-> rec.thread_of],
                        !.thread = "finished",
                        !.pc = "none"]
  /\ rec_env' = [rec_env EXCEPT !.last = "thread"]
  /\ RecorderOthers

\* the monotonic clock advances
ClockAdvances ==
  /\ rec_env.now < MaxClock
  /\ rec_env' = [rec_env EXCEPT !.now = @ + 1, !.last = "clock"]
  /\ UNCHANGED rec
  /\ RecorderOthers

NextRecorder ==
  \/ StartRecording
  \/ StopRecording
  \/ JoinReturns
  \/ ThreadOpens
  \/ LoopChecks
  \/ LoopReads
  \/ LoopFinally
  \/ ClockAdvances

SpecRecorder == InitRecorder /\ [][NextRecorder]_vars

\* stop_recording has returned
StopReturned == rec_env.returned # <<>>

\* every frame of the list was captured for recording id
FramesOf(frames, id) == \A i \in 1..Len(frames) : frames[i] = id

\* the frames returned by stop_recording are those of the recording started
\* by the most recent start_recording, and so is the duration
C40_ReturnedResultsBelong ==
  StopReturned =>
    /\ FramesOf(rec_env.returned[1].frames, rec_env.started)
    /\ rec_env.started > 0 => rec_env.returned[1].duration.of = rec_env.started

\* start_recording called while a recording thread is alive starts no second
\* thread and does not clear the captured frames
C40_StartWhileAliveKeepsRecording ==
  [][(rec.thread = "alive" /\ rec_env'.last \in {"start", "start_ignored"}) =>
       (rec' = rec /\ rec_env'.started = rec_env.started)]_vars

\* C40: for every interleaving of start_recording, the recording thread and
\* stop_recording, a join that times out included, the frames and the
\* duration returned by stop_recording are those of the recording started by
\* the most recent start_recording, and start_recording called while a
\* recording thread is alive starts no second thread and does not clear the
\* captured frames.
C40_ResultsBelongToRecordingJustStopped ==
  /\ []C40_ReturnedResultsBelong
  /\ C40_StartWhileAliveKeepsRecording

\* the returned frames are those of the most recent recording, and so is
\* the duration whenever the join did not time out
C40_ResultsBelongUnlessJoinTimedOut ==
  StopReturned =>
    /\ FramesOf(rec_env.returned[1].frames, rec_env.started)
    /\ (rec_env.started > 0 /\ ~rec_env.returned[1].timed_out) =>
         rec_env.returned[1].duration.of = rec_env.started

\* the join of the second recording timed out: stop_recording returned its
\* frames with the duration of the first recording
C40_StaleDurationReached ==
  /\ StopReturned
  /\ rec_env.returned[1].timed_out
  /\ rec_env.started = 2
  /\ rec_env.returned[1].frames = <<2>>
  /\ rec_env.returned[1].duration.of = 1

\* start_recording was called while the thread of a recording with a frame
\* was alive
C40_StartWhileAliveReached ==
  /\ rec_env.last = "start_ignored"
  /\ rec.thread = "alive"
  /\ rec.frames # <<>>

====
